---- MODULE Spec2Model ----
(***************************************************************************)
(* A model of the remote MCP bridge: the two subscriber engines            *)
(* (SseHandler, StreamableHttpHandler) with their per-subscriber buffers   *)
(* and HTTP response sinks, and the ProcessManager that supervises the     *)
(* STDIO child.                                                            *)
(*                                                                         *)
(* A message is a string; here it is a record [seq, text]: text is the     *)
(* string as a sequence of Unicode code points, seq is the number of the   *)
(* broadcast call that carried it (the n-th call of broadcast by the       *)
(* router), which gives every message an identity.                         *)
(*                                                                         *)
(* A response (the sink) follows Node's stream contract: write() always    *)
(* takes the chunk; its result only tells whether the caller should wait   *)
(* for 'drain' before writing more.  The result is the environment's       *)
(* choice.  'drain' is emitted only after a write has returned false.      *)
(***************************************************************************)
EXTENDS Integers, Sequences, FiniteSets, TLC

\* ---------------------------------------------------------------- bounds
\* maxBufferSize and maxSubscribers, as given to the engine's constructor
MaxBufferSize == 2
MaxSubscribers == 2
\* Every behaviour is explored up to MaxSteps events (requests, broadcasts,
\* 'drain' events, disconnects, timer ticks).
MaxSteps == 4
\* The supervisor spawns at most MaxSpawns children in a behaviour.
MaxSpawns == 3
\* ... and handles at most MaxEvents calls, child events and timer callbacks.
MaxEvents == 6
\* The values of RESTART_BACKOFF_BASE and RESTART_BACKOFF_MAX tried.  The
\* configuration loader takes any integer and does not compare the two.
Backoffs == { [base |-> 1, max |-> 3], [base |-> 3, max |-> 2],
              [base |-> -1, max |-> 2] }
\* The ingress answers at most MaxRequests POST requests in a behaviour, with
\* bodies of at most MaxBatch messages.
MaxRequests == 2
MaxBatch == 2
\* The health check is tried on supervisors that have counted up to
\* MaxRestartCount restarts.
MaxRestartCount == 7
\* The bridge as a whole handles at most MaxBridgeEvents requests, stream
\* events and supervisor events in a behaviour, its shutdown not counted.
MaxBridgeEvents == 4
\* The defaults of the ProcessManager constructor.
DefaultBackoffBase == 1000
DefaultBackoffMax == 60000

\* The messages the router may broadcast: "a" (1 byte, 1 UTF-16 unit) and
\* "é" (2 bytes in UTF-8, 1 UTF-16 unit).
Frames == { <<97>>, <<233>> }

\* Subscriber ids are the values of subscriberIdCounter.
Ids == 1..MaxSteps
Engines == {"sse", "ndjson"}

VARIABLES
  engine,               \* which engine class this object is
  subscribers,          \* keys of the subscribers Map
  subscriberIdCounter,
  sub,                  \* the StreamSubscriber objects, by id
  keepaliveInterval,    \* SseHandler: TRUE iff the interval timer is set
  globalMessageBuffer,  \* StreamableHttpHandler: replay buffer
  globalBufferSize,
  httpStatus,           \* status of each stream-open request, in arrival order
  broadcastLog,         \* the texts given to broadcast so far, in call order
  steps,                \* number of events so far
  backoffBase,          \* ProcessManager: constructor argument
  backoffMax,           \* ProcessManager: constructor argument
  pm,                   \* ProcessManager: its fields, the children it spawned
                        \* and the timers it armed
  stdoutStream,         \* the bytes the child writes to stdout in this behaviour
  stdoutFed,            \* how many of them the 'data' events have delivered
  stdoutBuffer,         \* MessageRouter.stdoutBuffer
  parsedLines,          \* the lines given to parseJsonRpcLine, in order
  sseBroadcasts,        \* the strings given to sseHandler.broadcast, in order
  ndBroadcasts,         \* ... and to streamableHttpHandler.broadcast
  lazyStart,            \* config.lazyStart
  stdin,                \* the strings written to the stdin of a child, in order
  responses,            \* the responses to the POST /mcp requests, in order
  timeouts,             \* the setTimeout callbacks of the ingress not yet run
  envelope,             \* the value given to envelope validation
  verdict,              \* what the two validators did with it
  healthLog,            \* the responses to the GET /healthz requests, in order
  shutdownInProgress,   \* BridgeServer.shutdownInProgress
  stopAt,               \* where the call of BridgeServer.stop() that runs the
                        \* shutdown is waiting ("none" before it is called)
  shutdownLog,          \* the steps of the shutdown begun and ended, in order
  endPending,           \* the subscribers whose response.end(callback) of
                        \* closeAll has not called back yet
  listener,             \* the HTTP server: "listening", "closing" or "closed"
  exitCode,             \* the argument of process.exit; -1 while the process runs
  tool                  \* the STDIO tool: its args, and process.env as name/value pairs

engineVars == <<engine, subscribers, subscriberIdCounter, sub, keepaliveInterval,
                globalMessageBuffer, globalBufferSize, httpStatus, broadcastLog,
                steps>>

supVars == <<backoffBase, backoffMax, pm>>

routerVars == <<stdoutStream, stdoutFed, stdoutBuffer, parsedLines, sseBroadcasts,
                ndBroadcasts>>

ingressVars == <<lazyStart, stdin, responses, timeouts>>

envelopeVars == <<envelope, verdict>>

bridgeVars == <<healthLog, shutdownInProgress, stopAt, shutdownLog, endPending,
                listener, exitCode, tool>>

\* ------------------------------------------------------------ pure helpers
Min(a, b) == IF a <= b THEN a ELSE b

\* Buffer.byteLength(<one code point>, 'utf8')
Utf8Len(cp) ==
  IF cp < 128 THEN 1 ELSE IF cp < 2048 THEN 2 ELSE IF cp < 65536 THEN 3 ELSE 4

RECURSIVE ByteLength(_)
\* Buffer.byteLength(message, 'utf8')
ByteLength(text) ==
  IF text = <<>> THEN 0 ELSE Utf8Len(Head(text)) + ByteLength(Tail(text))

\* String.prototype.length: UTF-16 code units
Utf16Len(cp) == IF cp < 65536 THEN 1 ELSE 2

RECURSIVE StringLength(_)
StringLength(text) ==
  IF text = <<>> THEN 0 ELSE Utf16Len(Head(text)) + StringLength(Tail(text))

IsWhitespace(cp) == cp \in {9, 10, 11, 12, 13, 32}

\* !message || message.trim().length === 0
IsBlank(text) == \A i \in 1..Len(text) : IsWhitespace(text[i])

RECURSIVE SumBytes(_)
\* calculateBufferSize(buffer)
SumBytes(buffer) ==
  IF buffer = <<>> THEN 0 ELSE ByteLength(Head(buffer).text) + SumBytes(Tail(buffer))

\* ------------------------------------------------------------- wire format
StreamOpenedComment == <<58, 32, 115, 116, 114, 101, 97, 109, 32, 111, 112, 101,
                         110, 101, 100, 10, 10>>
\* JSON.stringify({ jsonrpc: "2.0", method: "_stream_opened" }) + '\n'
StreamOpenedLine == <<123, 34, 106, 115, 111, 110, 114, 112, 99, 34, 58, 34, 50, 46,
                      48, 34, 44, 34, 109, 101, 116, 104, 111, 100, 34, 58, 34, 95,
                      115, 116, 114, 101, 97, 109, 95, 111, 112, 101, 110, 101, 100,
                      34, 125, 10>>

\* `data: ${message}\n\n`
SseMessage(text) == <<100, 97, 116, 97, 58, 32>> \o text \o <<10, 10>>
\* message + '\n'
MessageWithNewline(text) == text \o <<10>>

DataChunk(message, wire) == [kind |-> "data", seq |-> message.seq, text |-> wire]
CommentChunk(kind, wire) == [kind |-> kind, seq |-> 0, text |-> wire]

\* ---------------------------------------------------------------- objects
NewResponse == [out |-> <<>>, needDrain |-> FALSE, drainListeners |-> 0,
                writableEnded |-> FALSE]

NewSubscriber == [buffer |-> <<>>, bufferSize |-> 0, response |-> NewResponse]

\* res.write(chunk): the chunk is taken; ok is the returned value.  A caller
\* that ignores the result passes TRUE: needDrain only gates the 'drain' event,
\* which does nothing when no listener waits for it.
ResWrite(res, chunk, ok) ==
  [res EXCEPT !.out = Append(@, chunk), !.needDrain = @ \/ ~ok]

\* res.end()
ResEnd(res) == [res EXCEPT !.writableEnded = TRUE]

\* ------------------------------------------------------- utils/buffer.ts
IsBufferOverLimit(s, maxSize) == s.bufferSize > maxSize

AddToBufferFits(s, message, maxSize) ==
  s.bufferSize + ByteLength(message.text) <= maxSize

\* subscriber.buffer.unshift(message) in place of push
AddToBufferUnshift(s, message) ==
  [s EXCEPT !.buffer = <<message>> \o @,
            !.bufferSize = @ + ByteLength(message.text)]

AddToBuffer(s, message) ==
  [s EXCEPT !.buffer = Append(@, message),
            !.bufferSize = @ + ByteLength(message.text)]

\* ------------------------------------------------- removeSubscriber (object part)
\* subscriber.response.end() without clearBuffer(subscriber)
RemoveSubscriberKeepsQueue(s) == [s EXCEPT !.response = ResEnd(@)]

\* clearBuffer(subscriber); subscriber.response.end()
RemoveSubscriberObj(s) ==
  [s EXCEPT !.buffer = <<>>, !.bufferSize = 0, !.response = ResEnd(@)]

\* ------------------------------------------------------------- SseHandler
\* message.length (UTF-16 units) in place of Buffer.byteLength
SseFlushedUnits(message) == StringLength(message.text)

\* subscriber.bufferSize -= Buffer.byteLength(message, 'utf8')
SseFlushedBytes(message) == ByteLength(message.text)

\* const message = subscriber.buffer[0]
SseNextToWrite(buffer) == Head(buffer)

RECURSIVE SseFlushSubscriber(_, _)
\* flushSubscriber: k is how many writes return true before one returns false.
SseFlushSubscriber(s, k) ==
  IF s.buffer = <<>> THEN s
  ELSE LET message == SseNextToWrite(s.buffer)
           written == k > 0
           s1 == [s EXCEPT !.response =
                    ResWrite(@, DataChunk(message, SseMessage(message.text)), written)]
       IN IF ~written
          THEN [s1 EXCEPT !.response.drainListeners = @ + 1]
          ELSE SseFlushSubscriber(
                 [s1 EXCEPT !.buffer = Tail(@),
                            !.bufferSize = @ - SseFlushedBytes(message)], k - 1)

\* >= in place of >
SseOverLimitInclusive(s, message) ==
  s.bufferSize >= MaxBufferSize - ByteLength(message.text)

SseOverLimit(s, message) ==
  IsBufferOverLimit(s, MaxBufferSize - ByteLength(message.text))

\* The body of broadcast's loop for one subscriber.  k < 0: the first write
\* of the flush throws, and the catch block puts the subscriber in toRemove.
SseBroadcastOne(s, message, k) ==
  IF SseOverLimit(s, message) THEN [s |-> s, remove |-> TRUE]
  ELSE IF ~AddToBufferFits(s, message, MaxBufferSize) THEN [s |-> s, remove |-> TRUE]
  ELSE IF k < 0 THEN [s |-> AddToBuffer(s, message), remove |-> TRUE]
  ELSE [s |-> SseFlushSubscriber(AddToBuffer(s, message), k), remove |-> FALSE]

\* > in place of >=
SseAboveCapacity == Cardinality(subscribers) > MaxSubscribers

SseAtCapacity == Cardinality(subscribers) >= MaxSubscribers

\* A rejection that also runs the cleanup of removeSubscriber's last lines
SseRejectStopsKeepalive ==
  /\ httpStatus' = Append(httpStatus, 503)
  /\ keepaliveInterval' = FALSE
  /\ UNCHANGED <<subscribers, subscriberIdCounter, sub>>

\* res.status(503).json(...); return
SseReject ==
  /\ httpStatus' = Append(httpStatus, 503)
  /\ UNCHANGED <<subscribers, subscriberIdCounter, sub, keepaliveInterval>>

\* A handleStream that writes the latest broadcast to the new subscriber
SseHandleStreamReplays ==
  /\ engine = "sse"
  /\ IF SseAtCapacity
     THEN SseReject
     ELSE LET id == subscriberIdCounter + 1
              opened == ResWrite(NewResponse, CommentChunk("open", StreamOpenedComment),
                                 TRUE)
              n == Len(broadcastLog)
          IN /\ subscriberIdCounter' = id
             /\ subscribers' = subscribers \cup {id}
             /\ sub' = [sub EXCEPT ![id] =
                          [NewSubscriber EXCEPT !.response =
                             IF n = 0 THEN opened
                             ELSE ResWrite(opened,
                                           DataChunk([seq |-> n, text |-> broadcastLog[n]],
                                                     SseMessage(broadcastLog[n])),
                                           TRUE)]]
             /\ keepaliveInterval' =
                  (IF Cardinality(subscribers') = 1 THEN TRUE ELSE keepaliveInterval)
             /\ httpStatus' = Append(httpStatus, 200)
  /\ UNCHANGED <<engine, globalMessageBuffer, globalBufferSize, broadcastLog>>

SseHandleStream ==
  /\ engine = "sse"
  /\ IF SseAtCapacity
     THEN SseReject
     ELSE LET id == subscriberIdCounter + 1
          IN /\ subscriberIdCounter' = id
             /\ subscribers' = subscribers \cup {id}
             /\ sub' = [sub EXCEPT ![id] =
                          [NewSubscriber EXCEPT !.response =
                             ResWrite(@, CommentChunk("open", StreamOpenedComment), TRUE)]]
             /\ keepaliveInterval' =
                  (IF Cardinality(subscribers') = 1 THEN TRUE ELSE keepaliveInterval)
             /\ httpStatus' = Append(httpStatus, 200)
  /\ UNCHANGED <<engine, globalMessageBuffer, globalBufferSize, broadcastLog>>

SseBroadcast(text, ks) ==
  /\ engine = "sse"
  /\ broadcastLog' = Append(broadcastLog, text)
  /\ IF subscribers = {}
     THEN UNCHANGED <<subscribers, sub, keepaliveInterval>>
     ELSE LET message == [seq |-> Len(broadcastLog) + 1, text |-> text]
              r == [id \in subscribers |-> SseBroadcastOne(sub[id], message, ks[id])]
              toRemove == {id \in subscribers : r[id].remove}
          IN /\ sub' = [id \in Ids |->
                          IF id \notin subscribers THEN sub[id]
                          ELSE IF id \in toRemove THEN RemoveSubscriberObj(r[id].s)
                          ELSE r[id].s]
             /\ subscribers' = subscribers \ toRemove
             /\ keepaliveInterval' =
                  (IF subscribers' = {} THEN FALSE ELSE keepaliveInterval)
  /\ UNCHANGED <<engine, subscriberIdCounter, globalMessageBuffer, globalBufferSize,
                 httpStatus>>

RECURSIVE SseFlushTimes(_, _, _)
\* The 'drain' listeners, each a call of flushSubscriber, run one after another.
SseFlushTimes(s, n, kseq) ==
  IF n = 0 THEN s
  ELSE SseFlushTimes(SseFlushSubscriber(s, Head(kseq)), n - 1, Tail(kseq))

\* The response emits 'drain': every once('drain') listener registered so far runs.
SseDrain(id, kseq) ==
  /\ engine = "sse"
  /\ sub[id].response.needDrain
  /\ LET n == sub[id].response.drainListeners
         s0 == [sub[id] EXCEPT !.response.needDrain = FALSE,
                               !.response.drainListeners = 0]
     IN sub' = [sub EXCEPT ![id] = SseFlushTimes(s0, n, kseq)]
  /\ UNCHANGED <<engine, subscribers, subscriberIdCounter, keepaliveInterval,
                 globalMessageBuffer, globalBufferSize, httpStatus, broadcastLog>>

\* req 'close' / 'aborted' -> removeSubscriber(subscriberId)
SseDisconnect(id) ==
  /\ engine = "sse"
  /\ id \in subscribers
  /\ sub' = [sub EXCEPT ![id] = RemoveSubscriberObj(@)]
  /\ subscribers' = subscribers \ {id}
  /\ keepaliveInterval' = (IF subscribers' = {} THEN FALSE ELSE keepaliveInterval)
  /\ UNCHANGED <<engine, subscriberIdCounter, globalMessageBuffer, globalBufferSize,
                 httpStatus, broadcastLog>>

\* The setInterval callback of startKeepalive.
SseKeepaliveTick ==
  /\ engine = "sse"
  /\ keepaliveInterval
  /\ IF subscribers = {}
     THEN /\ keepaliveInterval' = FALSE
          /\ UNCHANGED sub
     ELSE /\ sub' = [id \in Ids |->
                       IF id \in subscribers
                       THEN [sub[id] EXCEPT !.response =
                               ResWrite(@, CommentChunk("keepalive",
                                             \* ": keepalive\n\n"
                                             <<58, 32, 107, 101, 101, 112, 97, 108,
                                               105, 118, 101, 10, 10>>),
                                        TRUE)]
                       ELSE sub[id]]
          /\ UNCHANGED keepaliveInterval
  /\ UNCHANGED <<engine, subscribers, subscriberIdCounter, globalMessageBuffer,
                 globalBufferSize, httpStatus, broadcastLog>>

\* --------------------------------------------------- StreamableHttpHandler
\* subscriber.bufferSize -= Buffer.byteLength(message, 'utf8')
NdFlushedBytes(message) == ByteLength(message.text)

\* const message = subscriber.buffer[0]
NdNextToWrite(buffer) == Head(buffer)

RECURSIVE NdFlushLoop(_, _)
\* The while loop of flushSubscriber, entered with a response that is not ended.
NdFlushLoop(s, k) ==
  IF s.buffer = <<>> THEN s
  ELSE LET message == NdNextToWrite(s.buffer)
       IN IF IsBlank(message.text)
          THEN NdFlushLoop([s EXCEPT !.buffer = Tail(@),
                                     !.bufferSize = @ - ByteLength(message.text)], k)
          ELSE LET written == k > 0
                   s1 == [s EXCEPT !.response =
                            ResWrite(@, DataChunk(message,
                                                  MessageWithNewline(message.text)),
                                     written)]
               IN IF ~written
                  THEN [s1 EXCEPT !.response.drainListeners = @ + 1]
                  ELSE NdFlushLoop([s1 EXCEPT !.buffer = Tail(@),
                                              !.bufferSize = @ - NdFlushedBytes(message)],
                                   k - 1)

\* flushSubscriber; registered tells whether the subscriber is still in the Map
\* (removeSubscriber returns at once when it is not).
NdFlushSubscriber(s, registered, k) ==
  IF s.response.writableEnded
  THEN [s |-> IF registered THEN RemoveSubscriberObj(s) ELSE s, remove |-> registered]
  ELSE [s |-> NdFlushLoop(s, k), remove |-> FALSE]

NdOverLimit(s, message) ==
  IsBufferOverLimit(s, MaxBufferSize - ByteLength(message.text))

\* The body of broadcast's loop for one subscriber.  k < 0: the first write
\* of the flush throws, and the catch block puts the subscriber in toRemove.
NdBroadcastOne(s, message, k) ==
  IF NdOverLimit(s, message) THEN [s |-> s, remove |-> TRUE]
  ELSE IF ~AddToBufferFits(s, message, MaxBufferSize) THEN [s |-> s, remove |-> TRUE]
  ELSE IF k < 0 THEN [s |-> AddToBuffer(s, message), remove |-> TRUE]
  ELSE NdFlushSubscriber(AddToBuffer(s, message), TRUE, k)

\* The ceiling tested against the size before the message is added
GlobalBufferHasRoom(message) == globalBufferSize <= MaxBufferSize

\* this.globalBufferSize + messageSize <= this.maxBufferSize
GlobalBufferFits(message) ==
  globalBufferSize + ByteLength(message.text) <= MaxBufferSize

RECURSIVE NdTransfer(_, _)
\* The for loop of deliverBufferedMessages: stops at the first message that
\* does not fit.
NdTransfer(s, messages) ==
  IF messages = <<>> THEN s
  ELSE IF NdOverLimit(s, Head(messages)) THEN s
  ELSE IF ~AddToBufferFits(s, Head(messages), MaxBufferSize) THEN s
  ELSE NdTransfer(AddToBuffer(s, Head(messages)), Tail(messages))

\* deliverBufferedMessages(subscriber): the subscriber afterwards.  The caller
\* clears the global buffer.
DeliverBufferedMessages(s, k) ==
  IF globalMessageBuffer = <<>> THEN s
  ELSE NdFlushSubscriber(NdTransfer(s, globalMessageBuffer), TRUE, k).s

\* The global buffer left as it is
GlobalBufferKept == globalMessageBuffer

\* this.globalMessageBuffer = [] at the end of deliverBufferedMessages
GlobalBufferAfterDelivery == <<>>

NdAtCapacity == Cardinality(subscribers) >= MaxSubscribers

\* res.status(503).json(...); return
NdReject ==
  /\ httpStatus' = Append(httpStatus, 503)
  /\ UNCHANGED <<subscribers, subscriberIdCounter, sub, globalMessageBuffer,
                 globalBufferSize>>

\* Registration, replay delivery and the stream-opened line, as handleStream and
\* the stream branch of handlePost both do them.
NdEstablish(k) ==
  LET id == subscriberIdCounter + 1
      d == DeliverBufferedMessages(NewSubscriber, k)
      s == IF d.buffer = <<>>   \* subscriber.buffer.length === 0
           THEN [d EXCEPT !.response =
                   ResWrite(@, CommentChunk("opened", StreamOpenedLine), TRUE)]
           ELSE d
  IN /\ subscriberIdCounter' = id
     /\ subscribers' = subscribers \cup {id}
     /\ sub' = [sub EXCEPT ![id] = s]
     /\ globalMessageBuffer' = GlobalBufferAfterDelivery
     /\ globalBufferSize' = 0
     /\ httpStatus' = Append(httpStatus, 200)

\* GET /mcp/streamable
NdHandleStream(k) ==
  /\ engine = "ndjson"
  /\ IF NdAtCapacity THEN NdReject ELSE NdEstablish(k)
  /\ UNCHANGED <<engine, keepaliveInterval, broadcastLog>>

\* POST /mcp/streamable with a valid body
NdHandlePost(establishStream, k) ==
  /\ engine = "ndjson"
  /\ IF establishStream
     THEN IF NdAtCapacity THEN NdReject ELSE NdEstablish(k)
     ELSE /\ httpStatus' = Append(httpStatus, 202)
          /\ UNCHANGED <<subscribers, subscriberIdCounter, sub, globalMessageBuffer,
                         globalBufferSize>>
  /\ UNCHANGED <<engine, keepaliveInterval, broadcastLog>>

NdBroadcast(text, ks) ==
  /\ engine = "ndjson"
  /\ broadcastLog' = Append(broadcastLog, text)
  /\ LET message == [seq |-> Len(broadcastLog) + 1, text |-> text]
     IN IF IsBlank(text)
        THEN UNCHANGED <<subscribers, sub, globalMessageBuffer, globalBufferSize>>
        ELSE IF subscribers = {}
        THEN /\ IF GlobalBufferFits(message)
                THEN /\ globalMessageBuffer' = Append(globalMessageBuffer, message)
                     /\ globalBufferSize' = globalBufferSize + ByteLength(text)
                ELSE UNCHANGED <<globalMessageBuffer, globalBufferSize>>
             /\ UNCHANGED <<subscribers, sub>>
        ELSE LET r == [id \in subscribers |-> NdBroadcastOne(sub[id], message, ks[id])]
                 toRemove == {id \in subscribers : r[id].remove}
             IN /\ sub' = [id \in Ids |->
                             IF id \notin subscribers THEN sub[id]
                             ELSE IF id \in toRemove THEN RemoveSubscriberObj(r[id].s)
                             ELSE r[id].s]
                /\ subscribers' = subscribers \ toRemove
                /\ UNCHANGED <<globalMessageBuffer, globalBufferSize>>
  /\ UNCHANGED <<engine, subscriberIdCounter, keepaliveInterval, httpStatus>>

RECURSIVE NdFlushTimes(_, _, _, _)
\* The 'drain' listeners, each a call of flushSubscriber, run one after another.
NdFlushTimes(s, registered, n, kseq) ==
  IF n = 0 THEN [s |-> s, remove |-> FALSE]
  ELSE LET r == NdFlushSubscriber(s, registered, Head(kseq))
       IN IF r.remove
          THEN [s |-> NdFlushTimes(r.s, FALSE, n - 1, Tail(kseq)).s, remove |-> TRUE]
          ELSE NdFlushTimes(r.s, registered, n - 1, Tail(kseq))

\* The response emits 'drain': every once('drain') listener registered so far runs.
NdDrain(id, kseq) ==
  /\ engine = "ndjson"
  /\ sub[id].response.needDrain
  /\ LET n == sub[id].response.drainListeners
         s0 == [sub[id] EXCEPT !.response.needDrain = FALSE,
                               !.response.drainListeners = 0]
         r == NdFlushTimes(s0, id \in subscribers, n, kseq)
     IN /\ sub' = [sub EXCEPT ![id] = r.s]
        /\ subscribers' = IF r.remove THEN subscribers \ {id} ELSE subscribers
  /\ UNCHANGED <<engine, subscriberIdCounter, keepaliveInterval, globalMessageBuffer,
                 globalBufferSize, httpStatus, broadcastLog>>

\* req 'close' / 'aborted', res 'error' -> removeSubscriber(subscriberId)
NdDisconnect(id) ==
  /\ engine = "ndjson"
  /\ id \in subscribers
  /\ sub' = [sub EXCEPT ![id] = RemoveSubscriberObj(@)]
  /\ subscribers' = subscribers \ {id}
  /\ UNCHANGED <<engine, subscriberIdCounter, keepaliveInterval, globalMessageBuffer,
                 globalBufferSize, httpStatus, broadcastLog>>

\* ---------------------------------------------------------- ProcessManager
\* pm.process         this.process: 0 for null, else the number of the spawn
\*                    that returned the ChildProcess object
\* pm.started, pm.pid, pm.restartCount   this.state (pid: 0 for undefined)
\* pm.restartTimeout  TRUE iff this.restartTimeout holds a timer
\* pm.timersArmed     the restart timers set and neither fired nor cleared
\* pm.spawnCount      the calls of spawn() so far
\* pm.child[i]        the i-th spawn: outcome "spawned" (a child with a pid),
\*                    "noPid" (spawn failed asynchronously: a ChildProcess
\*                    without pid, whose 'error' event is still to come),
\*                    "threw" (spawn threw), and which of its events have
\*                    been delivered
\* pm.scheduledFor[i] how many restart timers the handlers of spawn i armed
\* pm.stopInvoked    stop() has been called
\* pm.stops          the promises stop() returned: the ChildProcess each waits
\*                    for (0: none), whether it is resolved, and whether its
\*                    5-second timer is pending
\* pm.events         the calls, child events and timer callbacks handled
\* pm.armedLog        every timer armed: the restartCount it was armed at, its
\*                    delay, and the spawn whose failure armed it
Spawns == 1..MaxSpawns

NewProcessManager ==
  [process |-> 0, started |-> FALSE, pid |-> 0, restartCount |-> 0,
   restartTimeout |-> FALSE, timersArmed |-> 0, spawnCount |-> 0,
   child |-> [i \in Spawns |->
               [outcome |-> "none", errorSeen |-> FALSE, exited |-> FALSE,
                cleanExit |-> FALSE, signalled |-> FALSE, killed |-> FALSE]],
   scheduledFor |-> [i \in Spawns |-> 0],
   armedLog |-> <<>>, stopInvoked |-> FALSE, stops |-> <<>>, events |-> 0]

\* One more call, child event or timer callback handled.
Handled(m) == [m EXCEPT !.events = @ + 1]

RECURSIVE Pow2(_)
\* Math.pow(2, n) for n >= 0
Pow2(n) == IF n <= 0 THEN 1 ELSE 2 * Pow2(n - 1)

\* The exponent taken one too high
BackoffDelayFromZero(restartCount) ==
  Min(backoffBase * Pow2(restartCount), backoffMax)

\* Math.min(this.backoffBase * Math.pow(2, this.state.restartCount - 1), this.backoffMax)
BackoffDelay(restartCount) ==
  Min(backoffBase * Pow2(restartCount - 1), backoffMax)

\* scheduleRestart(), called by a handler of spawn i
ScheduleRestart(m, i) ==
  IF m.restartTimeout THEN m
  ELSE LET count == m.restartCount + 1
       IN [m EXCEPT !.restartCount = count,
                    !.restartTimeout = TRUE,
                    !.timersArmed = @ + 1,
                    !.scheduledFor[i] = @ + 1,
                    !.armedLog = Append(@, [k |-> count,
                                            delay |-> BackoffDelay(count),
                                            spawn |-> i])]

\* resolveInputVariables(args, inputs) in the environment env: ok is FALSE
\* where it throws, val is the array it returns.  In every arg the first
\* match of /\$\{input:([^}]+)\}/ is replaced by the value of INPUT_<ID in
\* upper case>, else of the variable named by the id, else by the default of
\* the input of that id; a value that is the empty string counts as absent.
ResolveInputVariables(args, inputs, env) ==
  LET Token == <<36, 123, 105, 110, 112, 117, 116, 58>>
      Starts(arg) ==
        {b \in 1..(Len(arg) - 9) :
           /\ SubSeq(arg, b, b + 7) = Token
           /\ arg[b + 8] # 125
           /\ \E e \in (b + 9)..Len(arg) : arg[e] = 125}
      First(S) == CHOOSE x \in S : \A y \in S : x <= y
      Begin(arg) == First(Starts(arg))
      End(arg) == First({e \in (Begin(arg) + 9)..Len(arg) : arg[e] = 125})
      Id(arg) == SubSeq(arg, Begin(arg) + 8, End(arg) - 1)
      Upper(text) == [i \in 1..Len(text) |->
                        IF text[i] \in 97..122 THEN text[i] - 32 ELSE text[i]]
      EnvKey(arg) == <<73, 78, 80, 85, 84, 95>> \o Upper(Id(arg))
      Get(key) == env[CHOOSE i \in 1..Len(env) : env[i].name = key].value
      Truthy(key) ==
        \E i \in 1..Len(env) : env[i].name = key /\ env[i].value # <<>>
      Defaults(arg) == {i \in 1..Len(inputs) :
                          inputs[i].id = Id(arg) /\ inputs[i].default # <<>>}
      Resolvable(arg) ==
        \/ Starts(arg) = {}
        \/ Truthy(EnvKey(arg)) \/ Truthy(Id(arg)) \/ Defaults(arg) # {}
      Value(arg) ==
        IF Truthy(EnvKey(arg)) THEN Get(EnvKey(arg))
        ELSE IF Truthy(Id(arg)) THEN Get(Id(arg))
        ELSE inputs[First(Defaults(arg))].default
      Resolved(arg) ==
        IF Starts(arg) = {} THEN arg
        ELSE SubSeq(arg, 1, Begin(arg) - 1) \o Value(arg)
             \o SubSeq(arg, End(arg) + 1, Len(arg))
  IN IF \A i \in 1..Len(args) : Resolvable(args[i])
     THEN [ok |-> TRUE, val |-> [i \in 1..Len(args) |-> Resolved(args[i])]]
     ELSE [ok |-> FALSE, val |-> <<>>]

\* What a call of spawnProcess() may meet: resolveInputVariables(this.tool.args,
\* []) throws, or spawn() returns a ChildProcess with a pid, returns one
\* without, or throws.
SpawnOutcomes ==
  IF ResolveInputVariables(tool.args, <<>>, tool.env).ok
  THEN {"spawned", "noPid", "threw"}
  ELSE {"threw"}

\* spawnProcess(): resolveInputVariables throws, or spawn() returns a
\* ChildProcess (with or without pid) or throws; the catch block schedules a
\* restart.
SpawnProcess(m, outcome) ==
  LET i == m.spawnCount + 1
      m1 == [m EXCEPT !.spawnCount = i, !.child[i].outcome = outcome]
  IN IF outcome = "threw"
     THEN ScheduleRestart(m1, i)
     ELSE [m1 EXCEPT !.process = i,
                     !.pid = IF outcome = "spawned" THEN i ELSE 0,
                     !.started = TRUE]

\* A spawn that failed asynchronously emits 'error' on the next tick, ahead of
\* every other event: while it is pending nothing else runs.
ErrorTickPending(m) ==
  \E i \in Spawns : m.child[i].outcome = "noPid" /\ ~m.child[i].errorSeen

\* if (this.process && this.process.pid) return
StartReturnsEarly(m) == m.process # 0 /\ m.child[m.process].outcome = "spawned"

\* start()
Start ==
  /\ pm.events < MaxEvents
  /\ ~ErrorTickPending(pm)
  /\ pm.spawnCount < MaxSpawns
  /\ IF StartReturnsEarly(pm)
     THEN pm' = Handled(pm)
     ELSE \E outcome \in SpawnOutcomes : pm' = Handled(SpawnProcess(pm, outcome))
  /\ UNCHANGED <<backoffBase, backoffMax, engineVars, routerVars, ingressVars, envelopeVars, bridgeVars>>

HasChildObject(i) == pm.child[i].outcome \in {"spawned", "noPid"}

\* The 'error' listener of child i.
ErrorEvent(i) ==
  /\ pm.events < MaxEvents
  /\ HasChildObject(i)
  /\ ErrorTickPending(pm) => pm.child[i].outcome = "noPid"
  /\ ~pm.child[i].errorSeen
  /\ ~pm.child[i].exited
  /\ pm' = Handled(ScheduleRestart([pm EXCEPT !.child[i].errorSeen = TRUE], i))
  /\ UNCHANGED <<backoffBase, backoffMax, engineVars, routerVars, ingressVars, envelopeVars, bridgeVars>>

\* The once('exit') listeners that stop() has put on child i: each clears its
\* timer and resolves its promise.
StopsResolvedBy(m, i) ==
  [m EXCEPT !.stops = [k \in 1..Len(m.stops) |->
                         IF m.stops[k].child = i
                         THEN [child |-> i, resolved |-> TRUE, timer |-> FALSE]
                         ELSE m.stops[k]]]

\* The 'exit' listeners of child i; clean: code === 0 && signal === null.  A
\* child that never got a pid exits, if at all, after its 'error' and not
\* cleanly.
ExitEvent(i, clean) ==
  /\ pm.events < MaxEvents
  /\ ~ErrorTickPending(pm)
  /\ HasChildObject(i)
  /\ ~pm.child[i].exited
  /\ pm.child[i].outcome = "noPid" => (pm.child[i].errorSeen /\ ~clean)
  /\ LET m1 == [pm EXCEPT !.child[i].exited = TRUE,
                          !.child[i].cleanExit = clean,
                          !.started = FALSE,
                          !.pid = 0]
     IN pm' = Handled(StopsResolvedBy(IF clean THEN m1 ELSE ScheduleRestart(m1, i), i))
  /\ UNCHANGED <<backoffBase, backoffMax, engineVars, routerVars, ingressVars, envelopeVars, bridgeVars>>

\* The callback of the restart timer.
RestartTimerFires ==
  /\ pm.events < MaxEvents
  /\ ~ErrorTickPending(pm)
  /\ pm.timersArmed > 0
  /\ pm.spawnCount < MaxSpawns
  /\ \E outcome \in SpawnOutcomes :
       pm' = Handled(SpawnProcess([pm EXCEPT !.timersArmed = @ - 1,
                                             !.restartTimeout = FALSE], outcome))
  /\ UNCHANGED <<backoffBase, backoffMax, engineVars, routerVars, ingressVars, envelopeVars, bridgeVars>>

\* this.state.started && this.process !== null && this.process.pid !== undefined
IsRunning(m) ==
  m.started /\ m.process # 0 /\ m.child[m.process].outcome = "spawned"

\* if (this.restartTimeout) { clearTimeout(this.restartTimeout); this.restartTimeout = null }
ClearRestartTimeout(m) ==
  IF m.restartTimeout
  THEN [m EXCEPT !.timersArmed = @ - 1, !.restartTimeout = FALSE]
  ELSE m

\* this.process.stdin.end(); this.process.kill('SIGTERM'): the child, if it
\* still lives, exits later on (ExitEvent), by the signal or on its own terms.
SignalChild(m) ==
  IF m.process # 0 /\ ~m.child[m.process].exited
  THEN [m EXCEPT !.child[m.process].signalled = TRUE]
  ELSE m

\* The timer never set
StopCallWithoutTimer(m) ==
  LET m1 == [ClearRestartTimeout(m) EXCEPT !.stopInvoked = TRUE]
  IN IF m.process = 0
     THEN [m1 EXCEPT !.stops = Append(@, [child |-> 0, resolved |-> TRUE,
                                          timer |-> FALSE])]
     ELSE [SignalChild(m1) EXCEPT !.stops = Append(@, [child |-> m.process,
                                                        resolved |-> FALSE,
                                                        timer |-> FALSE])]

\* stop(): the supervisor when the call returns its promise, which is resolved
\* already if there is no ChildProcess, and otherwise waits for the 'exit' of
\* this.process or for the 5-second timer
StopCall(m) ==
  LET m1 == [ClearRestartTimeout(m) EXCEPT !.stopInvoked = TRUE]
  IN IF m.process = 0
     THEN [m1 EXCEPT !.stops = Append(@, [child |-> 0, resolved |-> TRUE,
                                          timer |-> FALSE])]
     ELSE [SignalChild(m1) EXCEPT !.stops = Append(@, [child |-> m.process,
                                                        resolved |-> FALSE,
                                                        timer |-> TRUE])]

\* stop()
Stop ==
  /\ pm.events < MaxEvents
  /\ ~ErrorTickPending(pm)
  /\ pm' = Handled(StopCall(pm))
  /\ UNCHANGED <<backoffBase, backoffMax, engineVars, routerVars, ingressVars, envelopeVars, bridgeVars>>

\* The 5-second timer of the k-th stop(): this.process?.kill('SIGKILL'), which
\* goes to whatever child this.process is by now, and resolve()
GraceTimer(m, k) ==
  LET m1 == [m EXCEPT !.stops[k].timer = FALSE, !.stops[k].resolved = TRUE]
  IN IF m.process # 0 /\ ~m.child[m.process].exited
     THEN [m1 EXCEPT !.child[m.process].killed = TRUE]
     ELSE m1

GraceTimerFires(k) ==
  /\ pm.events < MaxEvents
  /\ ~ErrorTickPending(pm)
  /\ k \in 1..Len(pm.stops)
  /\ pm.stops[k].timer
  /\ pm' = Handled(GraceTimer(pm, k))
  /\ UNCHANGED <<backoffBase, backoffMax, engineVars, routerVars, ingressVars, envelopeVars, bridgeVars>>

\* ------------------------------------------------------------------- JSON
\* A string is its sequence of code points.  A JSON value is a record
\* [t, v]: t is "obj" (v: the members [k, v] in insertion order), "arr" (v:
\* the items), "str" (v: the code points), "num" (v: <<n>>, an integer) or
\* "lit" (v: the text of true, false or null).
\*
\* JsonParse covers the JSON of the messages used here: objects, arrays,
\* strings without escape sequences, integers and the three literals, with
\* JSON whitespace between tokens.  Member names that look like array indices,
\* which a JavaScript object would move to the front, are not used.
Json(t, v) == [t |-> t, v |-> v]
JsonNull == Json("lit", <<110, 117, 108, 108>>)

ParseFailed == [ok |-> FALSE, val |-> JsonNull, pos |-> 0]
Parsed(val, pos) == [ok |-> TRUE, val |-> val, pos |-> pos]

RECURSIVE SkipWhitespace(_, _)
\* the first position from i on that holds no JSON whitespace
SkipWhitespace(text, i) ==
  IF i <= Len(text) /\ text[i] \in {9, 10, 13, 32}
  THEN SkipWhitespace(text, i + 1)
  ELSE i

\* a JSON string starting at the quote at position i: it ends at the next
\* quote and holds neither a control character nor a backslash
ParseString(text, i) ==
  LET quotes == {e \in (i + 1)..Len(text) : text[e] = 34}
  IN IF quotes = {} THEN ParseFailed
     ELSE LET e == CHOOSE x \in quotes : \A y \in quotes : x <= y
              content == SubSeq(text, i + 1, e - 1)
          IN IF \E k \in 1..Len(content) : content[k] < 32 \/ content[k] = 92
             THEN ParseFailed
             ELSE Parsed(Json("str", content), e + 1)

RECURSIVE DigitsValue(_)
DigitsValue(digits) ==
  IF digits = <<>> THEN 0
  ELSE 10 * DigitsValue(SubSeq(digits, 1, Len(digits) - 1))
       + (digits[Len(digits)] - 48)

\* a JSON integer starting at position i: -? (0 | [1-9][0-9]*)
ParseNumber(text, i) ==
  LET neg == text[i] = 45
      d == IF neg THEN i + 1 ELSE i
      others == {x \in d..Len(text) : text[x] \notin 48..57}
      e == IF others = {} THEN Len(text) + 1
           ELSE CHOOSE x \in others : \A y \in others : x <= y
  IN IF e = d \/ (text[d] = 48 /\ e > d + 1) THEN ParseFailed
     ELSE LET n == DigitsValue(SubSeq(text, d, e - 1))
          IN Parsed(Json("num", <<IF neg THEN 0 - n ELSE n>>), e)

RECURSIVE ParseValue(_, _), ParseMembers(_, _, _), ParseItems(_, _, _)
ParseValue(text, i) ==
  LET j == SkipWhitespace(text, i)
      Literal(word) ==
        IF j + Len(word) - 1 <= Len(text)
           /\ SubSeq(text, j, j + Len(word) - 1) = word
        THEN Parsed(Json("lit", word), j + Len(word))
        ELSE ParseFailed
  IN IF j > Len(text) THEN ParseFailed
     ELSE IF text[j] = 34 THEN ParseString(text, j)
     ELSE IF text[j] = 45 \/ text[j] \in 48..57 THEN ParseNumber(text, j)
     ELSE IF text[j] = 116 THEN Literal(<<116, 114, 117, 101>>)
     ELSE IF text[j] = 102 THEN Literal(<<102, 97, 108, 115, 101>>)
     ELSE IF text[j] = 110 THEN Literal(<<110, 117, 108, 108>>)
     ELSE IF text[j] = 123
          THEN LET k == SkipWhitespace(text, j + 1)
               IN IF k <= Len(text) /\ text[k] = 125
                  THEN Parsed(Json("obj", <<>>), k + 1)
                  ELSE ParseMembers(text, k, <<>>)
     ELSE IF text[j] = 91
          THEN LET k == SkipWhitespace(text, j + 1)
               IN IF k <= Len(text) /\ text[k] = 93
                  THEN Parsed(Json("arr", <<>>), k + 1)
                  ELSE ParseItems(text, k, <<>>)
     ELSE ParseFailed

\* the members of an object from position i (the name of a member) to the
\* closing brace; a name that is already there keeps its place and takes the
\* new value
ParseMembers(text, i, acc) ==
  IF i > Len(text) \/ text[i] # 34 THEN ParseFailed
  ELSE LET name == ParseString(text, i)
       IN IF ~name.ok THEN ParseFailed
          ELSE LET c == SkipWhitespace(text, name.pos)
               IN IF c > Len(text) \/ text[c] # 58 THEN ParseFailed
                  ELSE LET val == ParseValue(text, c + 1)
                       IN IF ~val.ok THEN ParseFailed
                          ELSE LET e == SkipWhitespace(text, val.pos)
                                   member == [k |-> name.val.v, v |-> val.val]
                                   acc1 ==
                                     IF \E n \in 1..Len(acc) : acc[n].k = member.k
                                     THEN [n \in 1..Len(acc) |->
                                             IF acc[n].k = member.k THEN member
                                             ELSE acc[n]]
                                     ELSE Append(acc, member)
                               IN IF e > Len(text) THEN ParseFailed
                                  ELSE IF text[e] = 125
                                  THEN Parsed(Json("obj", acc1), e + 1)
                                  ELSE IF text[e] = 44
                                  THEN ParseMembers(text, SkipWhitespace(text, e + 1), acc1)
                                  ELSE ParseFailed

\* the items of an array from position i to the closing bracket
ParseItems(text, i, acc) ==
  LET val == ParseValue(text, i)
  IN IF ~val.ok THEN ParseFailed
     ELSE LET e == SkipWhitespace(text, val.pos)
              acc1 == Append(acc, val.val)
          IN IF e > Len(text) THEN ParseFailed
             ELSE IF text[e] = 93 THEN Parsed(Json("arr", acc1), e + 1)
             ELSE IF text[e] = 44 THEN ParseItems(text, e + 1, acc1)
             ELSE ParseFailed

\* JSON.parse(text): ok is FALSE where it throws a SyntaxError
JsonParse(text) ==
  LET r == ParseValue(text, 1)
  IN IF r.ok /\ SkipWhitespace(text, r.pos) > Len(text) THEN r ELSE ParseFailed

RECURSIVE DecimalDigits(_)
DecimalDigits(n) ==
  IF n < 10 THEN <<48 + n>> ELSE Append(DecimalDigits(n \div 10), 48 + (n % 10))

RECURSIVE JsonStringify(_), StringifyMembers(_), StringifyItems(_)
\* JSON.stringify(value): no whitespace; members in insertion order
JsonStringify(val) ==
  IF val.t = "str" THEN <<34>> \o val.v \o <<34>>
  ELSE IF val.t = "num"
       THEN IF val.v[1] < 0 THEN <<45>> \o DecimalDigits(0 - val.v[1])
            ELSE DecimalDigits(val.v[1])
  ELSE IF val.t = "lit" THEN val.v
  ELSE IF val.t = "arr" THEN <<91>> \o StringifyItems(val.v) \o <<93>>
  ELSE <<123>> \o StringifyMembers(val.v) \o <<125>>

StringifyMembers(members) ==
  IF members = <<>> THEN <<>>
  ELSE <<34>> \o Head(members).k \o <<34, 58>> \o JsonStringify(Head(members).v)
       \o (IF Len(members) > 1 THEN <<44>> \o StringifyMembers(Tail(members))
           ELSE <<>>)

StringifyItems(items) ==
  IF items = <<>> THEN <<>>
  ELSE JsonStringify(Head(items))
       \o (IF Len(items) > 1 THEN <<44>> \o StringifyItems(Tail(items)) ELSE <<>>)

\* ------------------------------------------------------- utils/jsonrpc.ts
\* The member names jsonrpc, method, id, result and error
Key == [jsonrpc |-> <<106, 115, 111, 110, 114, 112, 99>>,
        method |-> <<109, 101, 116, 104, 111, 100>>,
        id |-> <<105, 100>>,
        result |-> <<114, 101, 115, 117, 108, 116>>,
        error |-> <<101, 114, 114, 111, 114>>]
\* '2.0'
Version20 == <<50, 46, 48>>

\* key in msg
HasMember(msg, key) == \E i \in 1..Len(msg.v) : msg.v[i].k = key

\* msg[key], for a key that is in msg
Member(msg, key) == msg.v[CHOOSE i \in 1..Len(msg.v) : msg.v[i].k = key].v

\* The version test left out
ValidateIgnoringVersion(obj) ==
  /\ obj.t = "obj"
  /\ \/ HasMember(obj, Key.method) /\ Member(obj, Key.method).t = "str"
     \/ (HasMember(obj, Key.result) \/ HasMember(obj, Key.error)) /\ HasMember(obj, Key.id)

\* validateJsonRpcMessage(obj) returns obj; FALSE where it throws
ValidateJsonRpcMessage(obj) ==
  /\ obj.t = "obj"
  /\ HasMember(obj, Key.jsonrpc)
  /\ Member(obj, Key.jsonrpc).t = "str" /\ Member(obj, Key.jsonrpc).v = Version20
  /\ \/ HasMember(obj, Key.method) /\ Member(obj, Key.method).t = "str"
     \/ (HasMember(obj, Key.result) \/ HasMember(obj, Key.error)) /\ HasMember(obj, Key.id)

\* parseJsonRpcBatch(data) returns the array; FALSE where it throws
ParseJsonRpcBatch(data) ==
  /\ data.t = "arr"
  /\ \A i \in 1..Len(data.v) : ValidateJsonRpcMessage(data.v[i])

\* formatJsonRpcMessage(msg)
FormatJsonRpcMessage(msg) == JsonStringify(msg) \o <<10>>

\* ------------------------------------------------------- message-router.ts
RECURSIVE Utf8Encode(_)
\* what the child's stdout carries for a text (code points below 2048 are
\* enough for the texts here); a long text is encoded half by half, every
\* character being encoded on its own
Utf8Encode(text) ==
  IF Len(text) > 1
  THEN Utf8Encode(SubSeq(text, 1, Len(text) \div 2))
       \o Utf8Encode(SubSeq(text, Len(text) \div 2 + 1, Len(text)))
  ELSE IF text = <<>> THEN <<>>
  ELSE IF Head(text) < 128 THEN <<Head(text)>>
  ELSE <<192 + (Head(text) \div 64), 128 + (Head(text) % 64)>>

RECURSIVE Utf8Decode(_)
\* data.toString('utf-8'): a lead byte (194..223) with its continuation byte
\* (128..191) is one character; a byte that is not part of a complete sequence
\* inside this buffer decodes to U+FFFD.  A long buffer is decoded in two
\* parts, cut where no sequence is: a sequence is a lead byte and the
\* continuation byte after it, so the cut moves one byte on if it falls
\* between the two.
Utf8Decode(bytes) ==
  IF Len(bytes) > 2
  THEN LET h == Len(bytes) \div 2
           m == IF bytes[h] \in 194..223 /\ bytes[h + 1] \in 128..191
                THEN h + 1 ELSE h
       IN Utf8Decode(SubSeq(bytes, 1, m))
          \o Utf8Decode(SubSeq(bytes, m + 1, Len(bytes)))
  ELSE IF bytes = <<>> THEN <<>>
  ELSE IF Head(bytes) < 128 THEN <<Head(bytes)>> \o Utf8Decode(Tail(bytes))
  ELSE IF Head(bytes) \in 194..223 /\ Len(bytes) >= 2 /\ bytes[2] \in 128..191
       THEN <<(Head(bytes) - 192) * 64 + (bytes[2] - 128)>>
            \o Utf8Decode(Tail(Tail(bytes)))
  ELSE <<65533>> \o Utf8Decode(Tail(bytes))

RECURSIVE Split(_)
\* text.split('\n')
Split(text) ==
  IF \E i \in 1..Len(text) : text[i] = 10
  THEN LET i == CHOOSE k \in 1..Len(text) :
                  text[k] = 10 /\ \A j \in 1..(k - 1) : text[j] # 10
       IN <<SubSeq(text, 1, i - 1)>> \o Split(SubSeq(text, i + 1, Len(text)))
  ELSE <<text>>

\* line.trim()
Trim(text) ==
  LET kept == {i \in 1..Len(text) : ~IsWhitespace(text[i])}
  IN IF kept = {} THEN <<>>
     ELSE SubSeq(text, CHOOSE a \in kept : \A b \in kept : a <= b,
                 CHOOSE a \in kept : \A b \in kept : a >= b)

\* parseJsonRpcLine(line): ok is FALSE where it throws, val is what it returns
\* (null for a blank line)
ParseJsonRpcLine(line) ==
  LET trimmed == Trim(line)
      parsed == JsonParse(trimmed)
  IN IF trimmed = <<>> THEN Parsed(JsonNull, 0)
     ELSE IF parsed.ok /\ ValidateJsonRpcMessage(parsed.val) THEN parsed
     ELSE ParseFailed

RECURSIVE TrimmedLines(_)
\* the loop over the complete lines: the trimmed lines that are not empty
TrimmedLines(lines) ==
  IF lines = <<>> THEN <<>>
  ELSE LET trimmed == Trim(Head(lines))
       IN (IF trimmed = <<>> THEN <<>> ELSE <<trimmed>>) \o TrimmedLines(Tail(lines))

RECURSIVE BroadcastsOfUntilInvalid(_)
\* The loop left at the first line that does not parse
BroadcastsOfUntilInvalid(trimmedLines) ==
  IF trimmedLines = <<>> THEN <<>>
  ELSE LET message == ParseJsonRpcLine(Head(trimmedLines))
       IN IF message.ok
          THEN <<JsonStringify(message.val)>>
               \o BroadcastsOfUntilInvalid(Tail(trimmedLines))
          ELSE <<>>

RECURSIVE BroadcastsOf(_)
\* ... and, of these, JSON.stringify(message) for every line that
\* parseJsonRpcLine returns a message for; a line it throws on is logged and
\* the loop goes on
BroadcastsOf(trimmedLines) ==
  IF trimmedLines = <<>> THEN <<>>
  ELSE LET message == ParseJsonRpcLine(Head(trimmedLines))
       IN (IF message.ok THEN <<JsonStringify(message.val)>> ELSE <<>>)
          \o BroadcastsOf(Tail(trimmedLines))

\* processStdout(data), data being the next n bytes of the child's stdout
ProcessStdout(n) ==
  /\ n >= 1 /\ stdoutFed + n <= Len(stdoutStream)
  /\ LET data == SubSeq(stdoutStream, stdoutFed + 1, stdoutFed + n)
         lines == Split(stdoutBuffer \o Utf8Decode(data))
         complete == TrimmedLines(SubSeq(lines, 1, Len(lines) - 1))
     IN /\ stdoutBuffer' = lines[Len(lines)]
        /\ parsedLines' = parsedLines \o complete
        /\ sseBroadcasts' = sseBroadcasts \o BroadcastsOf(complete)
        /\ ndBroadcasts' = ndBroadcasts \o BroadcastsOf(complete)
  /\ stdoutFed' = stdoutFed + n
  /\ UNCHANGED <<stdoutStream, engineVars, supVars, ingressVars, envelopeVars, bridgeVars>>

\* ------------------------------------------------------ server.ts: ingress
\* application/json
ApplicationJson ==
  <<97, 112, 112, 108, 105, 99, 97, 116, 105, 111, 110, 47, 106, 115, 111,
    110>>

\* req.body where express.json() has parsed nothing
Undefined == Json("undefined", <<>>)

\* { jsonrpc: "2.0", id: 1, method: "a" }
RequestMessage ==
  Json("obj", <<[k |-> Key.jsonrpc, v |-> Json("str", Version20)],
                [k |-> Key.id, v |-> Json("num", <<1>>)],
                [k |-> Key.method, v |-> Json("str", <<97>>)]>>)
\* { jsonrpc: "2.0", method: "x" }
NotificationMessage ==
  Json("obj", <<[k |-> Key.jsonrpc, v |-> Json("str", Version20)],
                [k |-> Key.method, v |-> Json("str", <<120>>)]>>)
\* { jsonrpc: "1.0", id: 1, method: "x" }
WrongVersionMessage ==
  Json("obj", <<[k |-> Key.jsonrpc, v |-> Json("str", <<49, 46, 48>>)],
                [k |-> Key.id, v |-> Json("num", <<1>>)],
                [k |-> Key.method, v |-> Json("str", <<120>>)]>>)

\* The POST /mcp requests tried: the Content-Type header (application/json,
\* the same with "; charset=utf-8", text/plain, or none) and req.body as
\* express.json() leaves it (a body is parsed only under a JSON content type,
\* and only if it is an object or an array, the empty ones included).
Requests ==
  LET withCharset == ApplicationJson \o <<59, 32, 99, 104, 97, 114, 115, 101, 116,
                                          61, 117, 116, 102, 45, 56>>
      textPlain == <<116, 101, 120, 116, 47, 112, 108, 97, 105, 110>>
  IN { [contentType |-> ApplicationJson, body |-> NotificationMessage],
       [contentType |-> withCharset,
        body |-> Json("arr", <<RequestMessage, NotificationMessage>>)],
       [contentType |-> ApplicationJson,
        body |-> Json("arr", <<RequestMessage, WrongVersionMessage>>)],
       [contentType |-> ApplicationJson, body |-> WrongVersionMessage],
       [contentType |-> ApplicationJson, body |-> Json("obj", <<>>)],
       [contentType |-> ApplicationJson, body |-> Json("arr", <<>>)],
       [contentType |-> ApplicationJson, body |-> Undefined],
       [contentType |-> textPlain, body |-> Undefined],
       [contentType |-> <<>>, body |-> Undefined] }

\* text.includes(needle)
Includes(text, needle) ==
  \E i \in 1..(Len(text) - Len(needle) + 1) :
    SubSeq(text, i, i + Len(needle) - 1) = needle

\* The handler's state: the ProcessManager, what the child's stdin received,
\* the pending timeouts and the responses sent.
Server == [pm |-> pm, stdin |-> stdin, timeouts |-> timeouts, responses |-> responses]

\* start()
StartCall(m, outcome) == IF StartReturnsEarly(m) THEN m ELSE SpawnProcess(m, outcome)

\* The stdin of the current child takes what is written: the child has a pid,
\* has not exited and stop() has not ended its stdin.
StdinOpen(m) ==
  /\ m.process # 0
  /\ m.child[m.process].outcome = "spawned"
  /\ ~m.child[m.process].exited
  /\ ~m.child[m.process].signalled

\* !this.process || !this.process.stdin || !this.state.started: every
\* ChildProcess has a stdin here (stdio is 'pipe'; a spawn that fails for a
\* missing or forbidden command still returns one with its three streams)
WriteFindsNoProcess(m) == m.process = 0 \/ ~m.started

\* ProcessManager.write(message) for a string: given to stdin.write, or put
\* off by 100 ms after start() under lazyStart, or an Error('Process is not
\* running'), which writeMessages catches
Write(s, text, request, outcome) ==
  IF WriteFindsNoProcess(s.pm)
  THEN IF lazyStart
       THEN [s EXCEPT !.pm = StartCall(@, outcome),
                      !.timeouts = Append(@, [kind |-> "write", text |-> text,
                                              messages |-> <<>>,
                                              request |-> request])]
       ELSE s
  ELSE IF StdinOpen(s.pm)
       THEN [s EXCEPT !.stdin = Append(@, [child |-> s.pm.process, text |-> text,
                                            request |-> request])]
       ELSE s

RECURSIVE WriteMessagesReversed(_, _, _, _)
\* The loop run from the last message to the first
WriteMessagesReversed(s, messages, request, outcomes) ==
  IF messages = <<>> THEN s
  ELSE Write(WriteMessagesReversed(s, Tail(messages), request, Tail(outcomes)),
             FormatJsonRpcMessage(Head(messages)), request, Head(outcomes))

RECURSIVE WriteMessages(_, _, _, _)
\* writeMessages(messages); outcomes[i] is what spawn() does if the i-th write
\* calls it
WriteMessages(s, messages, request, outcomes) ==
  IF messages = <<>> THEN s
  ELSE WriteMessages(Write(s, FormatJsonRpcMessage(Head(messages)), request,
                           Head(outcomes)),
                     Tail(messages), request, Tail(outcomes))

\* res.status(status).json(...)
Respond(s, request, status, messageCount) ==
  [s EXCEPT !.responses = Append(@, [status |-> status,
                                      messageCount |-> messageCount])]

RECURSIVE ValidPrefix(_)
\* the elements of a batch ahead of its first invalid one
ValidPrefix(items) ==
  IF items = <<>> \/ ~ValidateJsonRpcMessage(Head(items)) THEN <<>>
  ELSE <<Head(items)>> \o ValidPrefix(Tail(items))

\* A batch admitted element by element until one fails
RejectAfterPrefix(s, request, outcomes) ==
  Respond(IF request.body.t = "arr"
          THEN WriteMessages(s, ValidPrefix(request.body.v),
                             Len(s.responses) + 1, outcomes)
          ELSE s,
          request, 400, 0)

\* The catch block of handlePostMcp: 400, nothing else
Reject(s, request, outcomes) == Respond(s, request, 400, 0)

\* handlePostMcp(req, res)
HandlePostMcp(s, request, outcomes) ==
  LET r == Len(s.responses) + 1
      messages == IF request.body.t = "arr" THEN request.body.v
                  ELSE <<request.body>>
      validates == IF request.body.t = "arr" THEN ParseJsonRpcBatch(request.body)
                   ELSE ValidateJsonRpcMessage(request.body)
  IN IF request.contentType = <<>> \/ ~Includes(request.contentType, ApplicationJson)
     THEN Respond(s, request, 400, 0)
     ELSE IF request.body.t \notin {"obj", "arr"}
     THEN Respond(s, request, 400, 0)
     ELSE IF ~validates
     THEN Reject(s, request, outcomes)
     ELSE IF ~IsRunning(s.pm)
     THEN IF lazyStart
          THEN Respond([s EXCEPT !.pm = StartCall(@, Head(outcomes)),
                                 !.timeouts = Append(@, [kind |-> "writeMessages",
                                                         text |-> <<>>,
                                                         messages |-> messages,
                                                         request |-> r])],
                       request, 202, Len(messages))
          ELSE Respond(s, request, 503, 0)
     ELSE Respond(WriteMessages(s, messages, r, outcomes), request, 202,
                  Len(messages))

\* The callback of a timeout set by handlePostMcp, by the message relay
\* callback or by ProcessManager.write
RunTimeout(s, t, outcomes) ==
  IF t.kind = "writeMessages"
  THEN WriteMessages(s, t.messages, t.request, outcomes)
  ELSE IF t.kind = "relay"
  THEN IF IsRunning(s.pm) THEN Write(s, t.text, t.request, Head(outcomes)) ELSE s
  ELSE IF s.pm.process # 0 /\ s.pm.started
       THEN Write(s, t.text, t.request, Head(outcomes))
       ELSE s

\* What the calls of spawn() in one handler may do: one outcome for each of
\* the first n writes, the rest never being asked for
OutcomesOf(n) ==
  { outcomes \in [1..MaxBatch -> SpawnOutcomes] :
      \A i \in (n + 1)..MaxBatch : outcomes[i] = "threw" }

\* The handler has run and left s
ServerBecomes(s) ==
  /\ pm' = Handled(s.pm)
  /\ stdin' = s.stdin
  /\ timeouts' = s.timeouts
  /\ responses' = s.responses
  /\ UNCHANGED <<lazyStart, backoffBase, backoffMax, engineVars, routerVars, envelopeVars, bridgeVars>>

\* POST /mcp with the given header and body; the handler calls spawn() at most
\* once, under lazyStart and without a running child
PostMcpRequest(request) ==
  LET spawns == IF lazyStart /\ ~IsRunning(pm) THEN 1 ELSE 0
  IN /\ pm.events < MaxEvents
     /\ ~ErrorTickPending(pm)
     /\ Len(responses) < MaxRequests
     /\ pm.spawnCount + spawns <= MaxSpawns
     /\ \E outcomes \in OutcomesOf(spawns) :
          ServerBecomes(HandlePostMcp(Server, request, outcomes))

\* The oldest pending timeout of the ingress fires (all are set for 100 ms);
\* writeMessages may call spawn() once for every message
TimeoutFires ==
  /\ pm.events < MaxEvents
  /\ ~ErrorTickPending(pm)
  /\ timeouts # <<>>
  /\ LET t == Head(timeouts)
         spawns == IF lazyStart /\ WriteFindsNoProcess(pm) /\ t.kind = "writeMessages"
                   THEN Len(t.messages)
                   ELSE 0
     IN /\ pm.spawnCount + spawns <= MaxSpawns
        /\ \E outcomes \in OutcomesOf(spawns) :
             ServerBecomes(RunTimeout([Server EXCEPT !.timeouts = Tail(@)], t,
                                      outcomes))

\* --------------------------------------------------- envelope validation
\* The values given to validateJsonRpcMessage and parseJsonRpcBatch: every
\* object made of a choice for each of jsonrpc, id, method, result and error
\* (Undefined: the member is absent), the values that are not objects, and
\* arrays of such values.
Envelopes ==
  LET Optional(key, option) ==
        IF option.t = "undefined" THEN <<>> ELSE <<[k |-> key, v |-> option]>>
      jsonrpcs == {Undefined, Json("str", Version20), Json("str", <<49, 46, 48>>),
                   Json("num", <<2>>)}
      ids == {Undefined, Json("num", <<1>>)}
      methods == {Undefined, Json("str", <<97>>), Json("num", <<1>>)}
      results == {Undefined, Json("str", <<111, 107>>)}
      errors == {Undefined,
                 Json("obj", <<[k |-> <<99, 111, 100, 101>>,
                                v |-> Json("num", <<-32600>>)]>>)}
  IN { Json("obj", Optional(Key.jsonrpc, j) \o Optional(Key.id, i)
                   \o Optional(Key.method, m) \o Optional(Key.result, r)
                   \o Optional(Key.error, e)) :
         j \in jsonrpcs, i \in ids, m \in methods, r \in results, e \in errors }
     \cup {JsonNull, Json("lit", <<116, 114, 117, 101>>), Json("num", <<7>>),
           Json("str", <<97>>)}
     \cup {Json("arr", <<>>), Json("arr", <<RequestMessage>>),
           Json("arr", <<RequestMessage, NotificationMessage>>),
           Json("arr", <<RequestMessage, WrongVersionMessage>>),
           Json("arr", <<Json("num", <<7>>), RequestMessage>>),
           Json("arr", <<Json("arr", <<RequestMessage>>)>>)}

\* validateJsonRpcMessage(envelope)
ValidateMessage ==
  /\ verdict.message = "none"
  /\ verdict' = [verdict EXCEPT !.message =
                   IF ValidateJsonRpcMessage(envelope) THEN "returned" ELSE "threw"]
  /\ UNCHANGED <<envelope, engineVars, supVars, routerVars, ingressVars, bridgeVars>>

\* parseJsonRpcBatch(envelope)
ParseBatch ==
  /\ verdict.batch = "none"
  /\ verdict' = [verdict EXCEPT !.batch =
                   IF ParseJsonRpcBatch(envelope) THEN "returned" ELSE "threw"]
  /\ UNCHANGED <<envelope, engineVars, supVars, routerVars, ingressVars, bridgeVars>>

\* ------------------------------------------------------ the child's output
\* {"jsonrpc":"2.0","method":"a"}
NotificationText ==
  <<123, 34, 106, 115, 111, 110, 114, 112, 99, 34, 58, 34, 50, 46, 48, 34,
     44, 34, 109, 101, 116, 104, 111, 100, 34, 58, 34, 97, 34, 125>>
\* {"jsonrpc":"2.0", "method":"a"}   (a space after the comma)
SpacedNotificationText ==
  <<123, 34, 106, 115, 111, 110, 114, 112, 99, 34, 58, 34, 50, 46, 48, 34,
     44, 32, 34, 109, 101, 116, 104, 111, 100, 34, 58, 34, 97, 34, 125>>
\* {"jsonrpc":   (not JSON)
TruncatedText ==
  <<123, 34, 106, 115, 111, 110, 114, 112, 99, 34, 58>>

\* What the child prints in a behaviour: valid and invalid lines, blank lines,
\* surrounding whitespace, "\r\n" line ends, a character of two bytes and a
\* last line without its newline.
StdoutTexts ==
  LET \* {"jsonrpc":"2.0","id":1,"result":"é"}
      response ==
        <<123, 34, 106, 115, 111, 110, 114, 112, 99, 34, 58, 34, 50, 46, 48, 34,
          44, 34, 105, 100, 34, 58, 49, 44, 34, 114, 101, 115, 117, 108, 116,
          34, 58, 34, 233, 34, 125>>
      \* {"jsonrpc":"1.0","method":"a"}
      wrongVersion ==
        <<123, 34, 106, 115, 111, 110, 114, 112, 99, 34, 58, 34, 49, 46, 48, 34,
          44, 34, 109, 101, 116, 104, 111, 100, 34, 58, 34, 97, 34, 125>>
      \* 7   (JSON, but not an object)
      bareNumber == <<55>>
  IN { SpacedNotificationText \o <<10>> \o TruncatedText \o <<10>>
         \o NotificationText \o <<10>>,
       <<32, 32>> \o NotificationText \o <<32, 13, 10, 10>> \o wrongVersion
         \o <<10>> \o TruncatedText,
       response \o <<10>> \o bareNumber \o <<10>>,
       <<233, 10, 32, 10, 97, 233>> }

\* --------------------------------------------------------------- health.ts
\* >= 5 in place of > 5
HandleHealthFromFive(m, sse, streamableHttp) ==
  LET running == IsRunning(m)
      status == IF ~running /\ m.restartCount > 0 THEN "unhealthy"
                ELSE IF m.restartCount >= 5 THEN "degraded"
                ELSE "healthy"
  IN [statusCode |-> IF status = "healthy" THEN 200
                     ELSE IF status = "degraded" THEN 200 ELSE 503,
      status |-> status, running |-> running, pid |-> m.pid,
      restartCount |-> m.restartCount, sse |-> sse,
      streamableHttp |-> streamableHttp]

\* handleHealth(req, res) of a HealthHandler built with a ProcessManager and
\* the two subscriber counts: the status code and the body of the response
HandleHealth(m, sse, streamableHttp) ==
  LET running == IsRunning(m)
      status == IF ~running /\ m.restartCount > 0 THEN "unhealthy"
                ELSE IF m.restartCount > 5 THEN "degraded"
                ELSE "healthy"
  IN [statusCode |-> IF status = "healthy" THEN 200
                     ELSE IF status = "degraded" THEN 200 ELSE 503,
      status |-> status, running |-> running, pid |-> m.pid,
      restartCount |-> m.restartCount, sse |-> sse,
      streamableHttp |-> streamableHttp]

\* GET /healthz
GetHealthz ==
  /\ exitCode = -1
  /\ ~ErrorTickPending(pm)
  /\ Len(healthLog) < MaxRequests
  /\ healthLog' =
       Append(healthLog,
              HandleHealth(pm,
                           IF engine = "sse" THEN Cardinality(subscribers) ELSE 0,
                           IF engine = "ndjson" THEN Cardinality(subscribers) ELSE 0))
  /\ UNCHANGED <<engineVars, supVars, routerVars, ingressVars, envelopeVars,
                 shutdownInProgress, stopAt, shutdownLog, endPending, listener,
                 exitCode, tool>>

\* ------------------------------------------------------------ specification
\* The bridge after main() has built the BridgeServer and the listener is up:
\* no subscriber, nothing read from the child, no request answered, no
\* shutdown begun.
Constructed ==
  /\ subscribers = {}
  /\ subscriberIdCounter = 0
  /\ sub = [id \in Ids |-> NewSubscriber]
  /\ keepaliveInterval = FALSE
  /\ globalMessageBuffer = <<>>
  /\ globalBufferSize = 0
  /\ httpStatus = <<>>
  /\ broadcastLog = <<>>
  /\ steps = 0
  /\ stdoutFed = 0
  /\ stdoutBuffer = <<>>
  /\ parsedLines = <<>>
  /\ sseBroadcasts = <<>>
  /\ ndBroadcasts = <<>>
  /\ stdin = <<>>
  /\ responses = <<>>
  /\ timeouts = <<>>
  /\ healthLog = <<>>
  /\ shutdownInProgress = FALSE
  /\ stopAt = "none"
  /\ shutdownLog = <<>>
  /\ endPending = {}
  /\ listener = "listening"
  /\ exitCode = -1

\* No value has been given to envelope validation.
EnvelopeStart ==
  /\ envelope = JsonNull
  /\ verdict = [message |-> "none", batch |-> "none"]

\* The results a flush may meet: 0..n writes succeed before one fails.
WriteResults == 0..MaxBufferSize

\* Every event is one step.
Step ==
  steps < MaxSteps /\ steps' = steps + 1 /\ UNCHANGED <<supVars, routerVars, ingressVars, envelopeVars, bridgeVars>>

HandleStream ==
  /\ Step
  /\ \/ SseHandleStream
     \/ \E k \in WriteResults : NdHandleStream(k)

HandlePost ==
  /\ Step
  /\ \E establishStream \in BOOLEAN, k \in WriteResults :
       NdHandlePost(establishStream, k)

Broadcast ==
  /\ Step
  /\ \E text \in Frames, ks \in [subscribers -> WriteResults] :
       SseBroadcast(text, ks) \/ NdBroadcast(text, ks)

Drain ==
  /\ Step
  /\ \E id \in Ids :
       \E kseq \in [1..sub[id].response.drainListeners -> WriteResults] :
         SseDrain(id, kseq) \/ NdDrain(id, kseq)

Disconnect == Step /\ \E id \in Ids : SseDisconnect(id) \/ NdDisconnect(id)

KeepaliveTick == Step /\ SseKeepaliveTick

Next ==
  \/ HandleStream
  \/ HandlePost
  \/ Broadcast
  \/ Drain
  \/ Disconnect
  \/ KeepaliveTick

vars == <<engineVars, supVars, routerVars, ingressVars, envelopeVars, bridgeVars>>

\* The engines alone, under a supervisor that stays as constructed.
Init ==
  /\ tool = [args |-> <<<<45, 121>>>>, env |-> <<>>]
  /\ engine \in Engines
  /\ backoffBase = DefaultBackoffBase
  /\ backoffMax = DefaultBackoffMax
  /\ pm = NewProcessManager
  /\ stdoutStream = <<>> /\ Constructed
  /\ lazyStart = TRUE
  /\ EnvelopeStart

Spec == Init /\ [][Next]_vars

NextSup ==
  \/ Start
  \/ \E i \in Spawns : ErrorEvent(i)
  \/ \E i \in Spawns, clean \in BOOLEAN : ExitEvent(i, clean)
  \/ RestartTimerFires
  \/ Stop
  \/ \E k \in 1..MaxEvents : GraceTimerFires(k)

\* The supervisor alone, with no stream traffic.
InitSup ==
  /\ tool = [args |-> <<<<45, 121>>>>, env |-> <<>>]
  /\ engine = "sse"
  /\ \E b \in Backoffs : backoffBase = b.base /\ backoffMax = b.max
  /\ pm = NewProcessManager
  /\ stdoutStream = <<>> /\ Constructed
  /\ lazyStart = TRUE
  /\ EnvelopeStart

SpecSup == InitSup /\ [][NextSup]_vars

\* The event loop runs every callback that is due: the next-tick 'error' of a
\* failed spawn, the restart timer and the 5-second timers of stop().
SpecSupLive ==
  /\ InitSup
  /\ [][NextSup]_vars
  /\ WF_vars(\E i \in Spawns : ErrorEvent(i))
  /\ WF_vars(RestartTimerFires)
  /\ WF_vars(\E k \in 1..MaxEvents : GraceTimerFires(k))

\* The child has died with all it wrote delivered, and the restart timer has
\* spawned the next one: its stdout goes to the same processStdout.  Neither
\* the 'exit' listener nor spawnProcess() touches the router.  The next
\* child writes "7\n", " a\nb" or "\n".
ChildRestarted ==
  /\ stdoutFed = Len(stdoutStream)
  /\ pm.spawnCount + 1 < MaxSpawns
  /\ pm' = SpawnProcess(pm, "spawned")
  /\ \E text \in {<<55, 10>>, <<32, 97, 10, 98>>, <<10>>} :
       stdoutStream' = Utf8Encode(text)
  /\ stdoutFed' = 0
  /\ UNCHANGED <<stdoutBuffer, parsedLines, sseBroadcasts, ndBroadcasts, backoffBase,
                 backoffMax, engineVars, ingressVars, envelopeVars, bridgeVars>>

NextRouter ==
  \/ \E n \in 1..Len(stdoutStream) : ProcessStdout(n)
  \/ ChildRestarted

\* The router alone: the child's stdout arrives in chunks of any size.
InitRouter ==
  /\ tool = [args |-> <<<<45, 121>>>>, env |-> <<>>]
  /\ engine = "sse"
  /\ backoffBase = DefaultBackoffBase
  /\ backoffMax = DefaultBackoffMax
  /\ pm = NewProcessManager
  /\ \E text \in StdoutTexts : stdoutStream = Utf8Encode(text)
  /\ Constructed
  /\ lazyStart = TRUE
  /\ EnvelopeStart

SpecRouter == InitRouter /\ [][NextRouter]_vars

NextIngress ==
  \/ \E request \in Requests : PostMcpRequest(request)
  \/ TimeoutFires
  \/ \E i \in Spawns : ErrorEvent(i)
  \/ \E i \in Spawns, clean \in BOOLEAN : ExitEvent(i, clean)
  \/ RestartTimerFires
  \/ Stop

\* The ingress with the supervisor: POST /mcp requests, their timeouts and
\* the events of the child.  Without lazyStart the constructor calls start().
InitIngress ==
  /\ tool = [args |-> <<<<45, 121>>>>, env |-> <<>>]
  /\ engine = "sse"
  /\ backoffBase = DefaultBackoffBase
  /\ backoffMax = DefaultBackoffMax
  /\ lazyStart \in BOOLEAN
  /\ IF lazyStart THEN pm = NewProcessManager
     ELSE \E outcome \in SpawnOutcomes : pm = SpawnProcess(NewProcessManager, outcome)
  /\ stdoutStream = <<>> /\ Constructed
  /\ EnvelopeStart

SpecIngress == InitIngress /\ [][NextIngress]_vars

NextEnvelope == ValidateMessage \/ ParseBatch

\* Envelope validation alone: one value, given to both validators.
InitEnvelope ==
  /\ tool = [args |-> <<<<45, 121>>>>, env |-> <<>>]
  /\ engine = "sse"
  /\ backoffBase = DefaultBackoffBase
  /\ backoffMax = DefaultBackoffMax
  /\ pm = NewProcessManager
  /\ stdoutStream = <<>> /\ Constructed
  /\ lazyStart = TRUE
  /\ envelope \in Envelopes
  /\ verdict = [message |-> "none", batch |-> "none"]

SpecEnvelope == InitEnvelope /\ [][NextEnvelope]_vars

\* The health check alone, on a supervisor that has counted any number of
\* restarts and whose current child was never spawned (spawn() not called, or
\* it threw), runs, has exited, or could not be executed.  Of the children only
\* the current one is kept.
InitHealth ==
  /\ tool = [args |-> <<<<45, 121>>>>, env |-> <<>>]
  /\ engine \in Engines
  /\ backoffBase = DefaultBackoffBase
  /\ backoffMax = DefaultBackoffMax
  /\ \E n \in 0..MaxRestartCount :
       LET spawned == SpawnProcess(NewProcessManager, "spawned")
           exited == [spawned EXCEPT !.child[1].exited = TRUE, !.started = FALSE,
                                     !.pid = 0]
           threw == SpawnProcess(NewProcessManager, "threw")
           failed == [SpawnProcess(NewProcessManager, "noPid")
                        EXCEPT !.child[1].errorSeen = TRUE]
       IN \/ n = 0 /\ pm = NewProcessManager
          \/ pm = [spawned EXCEPT !.restartCount = n]
          \/ pm = [exited EXCEPT !.restartCount = n]
          \/ n > 0 /\ pm = [threw EXCEPT !.restartCount = n]
          \/ n > 0 /\ pm = [failed EXCEPT !.restartCount = n]
  /\ stdoutStream = <<>> /\ Constructed
  /\ lazyStart = TRUE
  /\ EnvelopeStart

SpecHealth == InitHealth /\ [][GetHealthz]_vars

\* ------------------------------------- server.ts: stop(); index.ts: main()
\* The tools tried: args with ${input:a} where the environment has INPUT_A,
\* has a, or has neither.
Tools ==
  LET token == <<36, 123, 105, 110, 112, 117, 116, 58, 97, 125>>
      args == <<<<45, 121>>, <<45, 45, 107, 61>> \o token>>
      inputA == <<73, 78, 80, 85, 84, 95, 65>>
      secret == <<115, 51>>
  IN { [args |-> args, env |-> <<[name |-> inputA, value |-> secret]>>],
       [args |-> args, env |-> <<[name |-> <<97>>, value |-> secret]>>],
       [args |-> args, env |-> <<>>] }

\* process.on('SIGTERM' | 'SIGINT' | 'uncaughtException' | 'unhandledRejection')
ShutdownTriggers == {"SIGTERM", "SIGINT", "uncaughtException", "unhandledRejection"}

\* An event that adds cost to the events counted can be handled: the process
\* has not exited, no continuation of stop() is due (the promise it awaits is
\* resolved: it runs before any other event) and no next-tick 'error'.
BridgeReady(cost) ==
  /\ exitCode = -1
  /\ ~(stopAt \in {"sseCloseAll", "ndCloseAll"} /\ endPending = {})
  /\ ~(stopAt = "pmStop" /\ pm.stops[Len(pm.stops)].resolved)
  /\ ~ErrorTickPending(pm)
  /\ steps + pm.events + Len(healthLog) + Len(responses) + cost <= MaxBridgeEvents

\* stop() past its guard, up to the await of sseHandler.closeAll(): the
\* keepalive timer is stopped, every event-stream response gets ': closing'
\* and end(); the callbacks of end() are pending.  subs: the subscriber
\* objects as the handler that calls shutdown() has left them.
BeginStop(signal, subs) ==
  /\ shutdownInProgress' = TRUE
  /\ shutdownLog' = shutdownLog \o <<signal, "sseCloseAll">>
  /\ keepaliveInterval' = (IF engine = "sse" THEN FALSE ELSE keepaliveInterval)
  /\ sub' = [id \in Ids |->
               IF engine = "sse" /\ id \in subscribers
               THEN [subs[id] EXCEPT !.response =
                       ResEnd(ResWrite(@, CommentChunk("closing",
                                <<58, 32, 99, 108, 111, 115, 105, 110, 103, 10, 10>>),
                              TRUE))]
               ELSE subs[id]]
  /\ endPending' = (IF engine = "sse" THEN subscribers ELSE {})
  /\ stopAt' = "sseCloseAll"
  /\ UNCHANGED <<engine, subscribers, subscriberIdCounter, globalMessageBuffer,
                 globalBufferSize, httpStatus, broadcastLog, steps, supVars,
                 routerVars, ingressVars, envelopeVars, healthLog, listener,
                 exitCode, tool>>

\* stop() without the test of shutdownInProgress
ShutdownUnguarded(signal) == BeginStop(signal, sub)

\* shutdown(signal): await server.stop(); process.exit(0).  A stop() that
\* finds shutdownInProgress returns at once, and the process exits.
Shutdown(signal) ==
  IF shutdownInProgress
  THEN /\ exitCode' = 0
       /\ shutdownLog' = Append(shutdownLog, signal)
       /\ UNCHANGED <<engineVars, supVars, routerVars, ingressVars, envelopeVars,
                      healthLog, shutdownInProgress, stopAt, endPending, listener,
                      tool>>
  ELSE BeginStop(signal, sub)

\* The callback of a response's end(): its 'finish' event.
FinishEvent(id) ==
  /\ id \in endPending
  /\ endPending' = endPending \ {id}
  /\ UNCHANGED <<engineVars, supVars, routerVars, ingressVars, envelopeVars,
                 healthLog, shutdownInProgress, stopAt, shutdownLog, listener,
                 exitCode, tool>>

\* stop() after an await: subscribers.clear() and the closeAll of the other
\* engine, which calls end() on every response; then processManager.stop();
\* then server.close().
StopResumes ==
  /\ \/ /\ stopAt = "sseCloseAll" /\ endPending = {}
        /\ subscribers' = (IF engine = "sse" THEN {} ELSE subscribers)
        /\ sub' = [id \in Ids |->
                     IF engine = "ndjson" /\ id \in subscribers
                     THEN [sub[id] EXCEPT !.response = ResEnd(@)]
                     ELSE sub[id]]
        /\ endPending' = (IF engine = "ndjson" THEN subscribers ELSE {})
        /\ stopAt' = "ndCloseAll"
        /\ shutdownLog' = shutdownLog \o <<"sseClosed", "ndCloseAll">>
        /\ UNCHANGED <<pm, listener>>
     \/ /\ stopAt = "ndCloseAll" /\ endPending = {}
        /\ subscribers' = (IF engine = "ndjson" THEN {} ELSE subscribers)
        /\ pm' = StopCall(pm)
        /\ stopAt' = "pmStop"
        /\ shutdownLog' = shutdownLog \o <<"ndClosed", "pmStop">>
        /\ UNCHANGED <<sub, endPending, listener>>
     \/ /\ stopAt = "pmStop" /\ pm.stops[Len(pm.stops)].resolved
        /\ listener' = "closing"
        /\ stopAt' = "serverClose"
        /\ shutdownLog' = shutdownLog \o <<"pmStopped", "serverClose">>
        /\ UNCHANGED <<subscribers, sub, endPending, pm>>
  /\ UNCHANGED <<engine, subscriberIdCounter, keepaliveInterval, globalMessageBuffer,
                 globalBufferSize, httpStatus, broadcastLog, steps, backoffBase,
                 backoffMax, routerVars, ingressVars, envelopeVars, healthLog,
                 shutdownInProgress, exitCode, tool>>

\* The callback of server.close(), once every connection has ended: stop()
\* resolves and shutdown() calls process.exit(0).
ServerClosed ==
  /\ stopAt = "serverClose"
  /\ subscribers = {}
  /\ listener' = "closed"
  /\ stopAt' = "resolved"
  /\ shutdownLog' = Append(shutdownLog, "serverClosed")
  /\ exitCode' = 0
  /\ UNCHANGED <<engineVars, supVars, routerVars, ingressVars, envelopeVars,
                 healthLog, shutdownInProgress, endPending, tool>>

\* GET /mcp/stream and GET /mcp/streamable: start() under lazyStart when the
\* child is not running, then the engine's handleStream
OpenStream ==
  /\ steps < MaxSteps /\ steps' = steps + 1
  /\ IF ~IsRunning(pm) /\ lazyStart
     THEN /\ pm.events < MaxEvents /\ pm.spawnCount < MaxSpawns
          /\ \E outcome \in SpawnOutcomes : pm' = Handled(StartCall(pm, outcome))
     ELSE pm' = pm
  /\ \/ SseHandleStream
     \/ \E k \in WriteResults : NdHandleStream(k)
  /\ UNCHANGED <<backoffBase, backoffMax, routerVars, ingressVars, envelopeVars,
                 bridgeVars>>

\* A root endpoint that calls start() as the stream routes do
GetRootStarts ==
  /\ steps < MaxSteps /\ steps' = steps + 1
  /\ httpStatus' = Append(httpStatus, 200)
  /\ pm' = IF ~IsRunning(pm) /\ lazyStart /\ pm.spawnCount < MaxSpawns
           THEN StartCall(pm, "threw")
           ELSE pm
  /\ UNCHANGED <<engine, subscribers, subscriberIdCounter, sub, keepaliveInterval,
                 globalMessageBuffer, globalBufferSize, broadcastLog, backoffBase,
                 backoffMax, routerVars, ingressVars, envelopeVars, bridgeVars>>

\* GET /: res.json({ name, version, endpoints })
GetRoot ==
  /\ steps < MaxSteps /\ steps' = steps + 1
  /\ httpStatus' = Append(httpStatus, 200)
  /\ UNCHANGED <<engine, subscribers, subscriberIdCounter, sub, keepaliveInterval,
                 globalMessageBuffer, globalBufferSize, broadcastLog, supVars,
                 routerVars, ingressVars, envelopeVars, bridgeVars>>

\* broadcast(message); the write of a flush returns true or false, or throws
\* (-1)
BroadcastMayThrow ==
  /\ Step
  /\ \E text \in Frames, ks \in [subscribers -> WriteResults \cup {-1}] :
       SseBroadcast(text, ks) \/ NdBroadcast(text, ks)

\* 'drain' on the response of subscriber id, whose listener calls
\* flushSubscriber, where the write throws: flushSubscriber rethrows, no
\* caller catches, and the 'uncaughtException' handler of main() runs
\* shutdown('uncaughtException').  The listeners after the first stay.
DrainWriteThrows(id) ==
  /\ sub[id].response.needDrain /\ sub[id].response.drainListeners > 0
  /\ sub[id].buffer # <<>>
  /\ engine = "ndjson" => ~sub[id].response.writableEnded
  /\ LET subs == [sub EXCEPT ![id].response.needDrain = FALSE,
                             ![id].response.drainListeners = @ - 1]
     IN IF shutdownInProgress
        THEN /\ exitCode' = 0
             /\ shutdownLog' = Append(shutdownLog, "uncaughtException")
             /\ sub' = subs
             /\ UNCHANGED <<engine, subscribers, subscriberIdCounter, keepaliveInterval,
                            globalMessageBuffer, globalBufferSize, httpStatus,
                            broadcastLog, steps, supVars, routerVars, ingressVars,
                            envelopeVars, healthLog, shutdownInProgress, stopAt,
                            endPending, listener, tool>>
        ELSE BeginStop("uncaughtException", subs)

\* The bridge from the end of main()'s start-up: the constructor has called
\* start() unless lazyStart is set, and the listener is up.
NextBridge ==
  \/ exitCode = -1 /\ StopResumes
  \/ exitCode = -1 /\ ErrorTickPending(pm) /\ \E i \in Spawns : ErrorEvent(i)
  \/ BridgeReady(0) /\ \E signal \in ShutdownTriggers : Shutdown(signal)
  \/ BridgeReady(0) /\ \E id \in Ids : FinishEvent(id)
  \/ BridgeReady(0) /\ ServerClosed
  \/ BridgeReady(1) /\ listener = "listening" /\ OpenStream
  \/ BridgeReady(1) /\ listener = "listening" /\ GetHealthz
  \/ BridgeReady(1) /\ listener = "listening" /\ GetRoot
  \/ BridgeReady(1) /\ listener = "listening"
     /\ PostMcpRequest([contentType |-> ApplicationJson, body |-> NotificationMessage])
  \/ BridgeReady(1) /\ TimeoutFires
  \/ BridgeReady(1) /\ Disconnect
  \/ BridgeReady(1) /\ KeepaliveTick
  \/ BridgeReady(1) /\ \E i \in Spawns : ErrorEvent(i)
  \/ BridgeReady(1) /\ \E i \in Spawns, clean \in BOOLEAN : ExitEvent(i, clean)
  \/ BridgeReady(1) /\ RestartTimerFires
  \/ BridgeReady(1) /\ \E k \in 1..MaxEvents : GraceTimerFires(k)

InitBridge ==
  /\ tool \in Tools
  /\ engine \in Engines
  /\ backoffBase = DefaultBackoffBase
  /\ backoffMax = DefaultBackoffMax
  /\ lazyStart \in BOOLEAN
  /\ IF lazyStart THEN pm = NewProcessManager
     ELSE \E outcome \in SpawnOutcomes : pm = SpawnProcess(NewProcessManager, outcome)
  /\ stdoutStream = <<>> /\ Constructed
  /\ EnvelopeStart

SpecBridge == InitBridge /\ [][NextBridge]_vars

\* The engines with writes that may throw, up to the end of the shutdown that
\* an uncaught exception begins.
\* The message relay callback the BridgeServer constructor gives to the
\* StreamableHttpHandler: written at once to a running child; otherwise, under
\* lazyStart, start() and a write put off by 100 ms
RelayMessage(s, text, request, outcome) ==
  IF IsRunning(s.pm)
  THEN Write(s, text, request, outcome)
  ELSE IF lazyStart
       THEN [s EXCEPT !.pm = StartCall(@, outcome),
                      !.timeouts = Append(@, [kind |-> "relay", text |-> text,
                                              messages |-> <<>>,
                                              request |-> request])]
       ELSE s

RECURSIVE RelayMessages(_, _, _, _)
\* for (const msg of messages) this.messageRelayCallback(formatJsonRpcMessage(msg))
RelayMessages(s, messages, request, outcomes) ==
  IF messages = <<>> THEN s
  ELSE RelayMessages(RelayMessage(s, FormatJsonRpcMessage(Head(messages)), request,
                                  Head(outcomes)),
                     Tail(messages), request, Tail(outcomes))

\* POST /mcp/streamable: the route calls start() under lazyStart when no child
\* runs, then handlePost answers 400 to a wrong Content-Type, a body that is
\* no object or an invalid envelope; otherwise it relays every message, and
\* after that tests the subscriber limit (503), establishes the stream (200)
\* or answers 202.  The request is numbered by its place in httpStatus.
PostStreamable ==
  /\ engine = "ndjson"
  /\ steps < MaxSteps
  /\ pm.events < MaxEvents
  /\ ~ErrorTickPending(pm)
  /\ \E request \in Requests, establishStream \in BOOLEAN :
       LET r == Len(httpStatus) + 1
           messages == IF request.body.t = "arr" THEN request.body.v
                       ELSE <<request.body>>
           accepted ==
             /\ request.contentType # <<>>
             /\ Includes(request.contentType, ApplicationJson)
             /\ request.body.t \in {"obj", "arr"}
             /\ IF request.body.t = "arr" THEN ParseJsonRpcBatch(request.body)
                ELSE ValidateJsonRpcMessage(request.body)
           starts == lazyStart /\ ~IsRunning(pm)
           relayed == IF starts /\ accepted THEN Len(messages) ELSE 0
       IN /\ pm.spawnCount + (IF starts THEN 1 ELSE 0) + relayed <= MaxSpawns
          /\ \E first \in (IF starts THEN SpawnOutcomes ELSE {"threw"}),
                outcomes \in OutcomesOf(relayed) :
               LET routed == IF starts THEN [Server EXCEPT !.pm = StartCall(@, first)]
                             ELSE Server
                   s == IF accepted THEN RelayMessages(routed, messages, r, outcomes)
                        ELSE routed
               IN /\ pm' = Handled(s.pm)
                  /\ stdin' = s.stdin
                  /\ timeouts' = s.timeouts
                  /\ steps' = steps + 1
                  /\ IF accepted
                     THEN \E k \in WriteResults : NdHandlePost(establishStream, k)
                     ELSE /\ httpStatus' = Append(httpStatus, 400)
                          /\ UNCHANGED <<engine, subscribers, subscriberIdCounter, sub,
                                         keepaliveInterval, globalMessageBuffer,
                                         globalBufferSize, broadcastLog>>
                  /\ UNCHANGED <<backoffBase, backoffMax, routerVars, lazyStart,
                                 responses, envelopeVars, bridgeVars>>

\* POST /mcp/streamable with the stream opens that fill the subscriber map,
\* the timeouts of the relay and the 'error' event of a spawn that failed.
NextStreamable ==
  \/ ~ErrorTickPending(pm) /\ OpenStream
  \/ PostStreamable
  \/ TimeoutFires
  \/ \E i \in Spawns : ErrorEvent(i)

SpecStreamable == Init /\ [][NextStreamable]_vars

NextDelivery ==
  \/ exitCode = -1 /\ HandleStream
  \/ exitCode = -1 /\ BroadcastMayThrow
  \/ exitCode = -1 /\ Drain
  \/ exitCode = -1 /\ \E id \in Ids : DrainWriteThrows(id)
  \/ exitCode = -1 /\ \E id \in Ids : FinishEvent(id)
  \/ exitCode = -1 /\ StopResumes
  \/ exitCode = -1 /\ ServerClosed

SpecDelivery == Init /\ [][NextDelivery]_vars

\* ================================================================ claims
Last(q) == q[Len(q)]

IsData(chunk) == chunk.kind = "data"

\* The broadcast numbers of the data frames written to a response, in write order.
DataSeqs(out) ==
  LET d == SelectSeq(out, IsData) IN [i \in 1..Len(d) |-> d[i].seq]

QueueSeqs(buffer) == [i \in 1..Len(buffer) |-> buffer[i].seq]

NonDecreasing(q) == \A i, j \in 1..Len(q) : i < j => q[i] <= q[j]
Increasing(q) == \A i, j \in 1..Len(q) : i < j => q[i] < q[j]

\* The wire text of a message on this engine.
Wire(text) == IF engine = "sse" THEN SseMessage(text) ELSE MessageWithNewline(text)

BroadcastStep == Len(broadcastLog') = Len(broadcastLog) + 1
RequestStep == Len(httpStatus') = Len(httpStatus) + 1
\* A request that opened a stream; the new subscriber's id is subscriberIdCounter'.
AttachStep == RequestStep /\ Last(httpStatus') = 200

\* ---------------------------------------------------------------------- C1
\* C1: for every subscriber, the data frames written to its sink are in the
\* order of the broadcast calls (their broadcast numbers never decrease along the
\* sink), each carries the text of its broadcast in the engine's wire format, the
\* queue holds broadcasts in call order, and nothing has been written that was
\* broadcast later than a frame still queued.
C1_BroadcastOrder ==
  \A id \in Ids :
    LET written == DataSeqs(sub[id].response.out)
        queued == QueueSeqs(sub[id].buffer)
    IN /\ NonDecreasing(written)
       /\ Increasing(queued)
       /\ \A i \in 1..Len(written), j \in 1..Len(queued) : written[i] <= queued[j]
       /\ \A i \in 1..Len(sub[id].response.out) :
            LET chunk == sub[id].response.out[i]
            IN IsData(chunk) =>
                 /\ chunk.seq \in 1..Len(broadcastLog)
                 /\ chunk.text = Wire(broadcastLog[chunk.seq])

\* A subscriber that is still attached, met backpressure (a frame was written
\* twice) and then got a later frame.
C1_Witness ==
  \E id \in subscribers :
    LET written == DataSeqs(sub[id].response.out)
    IN \E i, j, k \in 1..Len(written) :
         i < j /\ j < k /\ written[i] = written[j] /\ written[j] < written[k]

\* ---------------------------------------------------------------------- C2
\* C2: for every registered subscriber, bufferSize is the sum of the UTF-8 byte
\* lengths of the queued frames, and lies between 0 and maxBufferSize.
C2_QueueAccounting ==
  \A id \in subscribers :
    /\ sub[id].bufferSize = SumBytes(sub[id].buffer)
    /\ 0 <= sub[id].bufferSize
    /\ sub[id].bufferSize <= MaxBufferSize

\* A registered subscriber whose queue still holds a 2-byte frame after a drain
\* resumed its flush and wrote an earlier frame.
C2_Witness ==
  \E id \in subscribers :
    /\ sub[id].buffer # <<>>
    /\ ByteLength(Head(sub[id].buffer).text) = 2
    /\ \E i \in 1..Len(sub[id].response.out) :
         /\ IsData(sub[id].response.out[i])
         /\ sub[id].response.out[i].seq < Head(sub[id].buffer).seq

\* ---------------------------------------------------------------------- C3
\* C3: the number of registered subscribers never exceeds maxSubscribers.
C3_Capacity == Cardinality(subscribers) <= MaxSubscribers

\* The engine is full and has turned a stream-open request away.
C3_Witness ==
  /\ Cardinality(subscribers) = MaxSubscribers
  /\ \E i \in 1..Len(httpStatus) : httpStatus[i] = 503

\* ---------------------------------------------------------------------- C4
\* C4: a stream-open request that arrives when the engine holds maxSubscribers
\* subscribers is answered 503 and changes nothing else: not the subscriber map,
\* the id counter, any subscriber's queue or sink, the keepalive timer or the
\* replay buffer.
C4_RejectChangesNothing ==
  [][ (RequestStep /\ Last(httpStatus') # 202
         /\ Cardinality(subscribers) >= MaxSubscribers)
      => /\ Last(httpStatus') = 503
         /\ UNCHANGED <<subscribers, subscriberIdCounter, sub, keepaliveInterval,
                        globalMessageBuffer, globalBufferSize, broadcastLog>> ]_vars

\* After a rejection the subscribers that were there are all still attached and
\* have been written a later broadcast.
C4_Witness ==
  /\ Cardinality(subscribers) = MaxSubscribers
  /\ Len(httpStatus) = MaxSubscribers + 1
  /\ Last(httpStatus) = 503
  /\ broadcastLog # <<>>
  /\ \A id \in subscribers :
       \E i \in 1..Len(sub[id].response.out) : IsData(sub[id].response.out[i])

\* ---------------------------------------------------------------------- C5
\* What a flush of queue q leaves: j frames written and removed, and, when
\* frames remain, the next one written once more without being removed.
FlushedTo(before, after, q) ==
  \E j \in 0..Len(q) :
    /\ after.buffer = SubSeq(q, j + 1, Len(q))
    /\ after.response.out =
         before.response.out
           \o [i \in 1..(IF j < Len(q) THEN j + 1 ELSE j) |->
                 DataChunk(q[i], Wire(q[i].text))]

DataWritten(id) == SelectSeq(sub[id].response.out, IsData)

\* A write returned false and the 'drain' listener it registered has not run.
WaitingForDrain(id) == sub[id].response.drainListeners > 0

\* C6: while a subscriber waits for 'drain', a broadcast only queues: it writes
\* no data frame to that subscriber's sink.
C6_NoWriteWhileWaiting ==
  [][ BroadcastStep =>
        \A id \in subscribers :
          WaitingForDrain(id) =>
            SelectSeq(sub'[id].response.out, IsData) = DataWritten(id) ]_vars

\* ---------------------------------------------------------------------- C7
NewSubscriberId == subscriberIdCounter'

\* What a subscriber holds or was written: its data frames by broadcast number.
FramesOf(id) ==
  {sub[id].buffer[i].seq : i \in 1..Len(sub[id].buffer)}
    \cup {DataWritten(id)[i].seq : i \in 1..Len(DataWritten(id))}

ReplaySeqs == {globalMessageBuffer[i].seq : i \in 1..Len(globalMessageBuffer)}

\* A broadcast with no subscriber appends a frame that fits to the replay buffer.
C7_ReplayHolds ==
  (BroadcastStep /\ engine = "ndjson" /\ subscribers = {})
    => LET text == Last(broadcastLog')
           message == [seq |-> Len(broadcastLog'), text |-> text]
       IN IF ~IsBlank(text) /\ globalBufferSize + ByteLength(text) <= MaxBufferSize
          THEN globalMessageBuffer' = Append(globalMessageBuffer, message)
          ELSE globalMessageBuffer' = globalMessageBuffer

\* An attach moves the whole replay buffer, in order, to the new subscriber
\* (written from the head, the rest queued) and empties the replay buffer; an
\* attach that finds the replay buffer empty gets no frame.
C7_ReplayTransfers ==
  (AttachStep /\ engine = "ndjson")
    => /\ FlushedTo(NewSubscriber,
                    [buffer |-> sub'[NewSubscriberId].buffer,
                     response |->
                       [out |-> SelectSeq(sub'[NewSubscriberId].response.out, IsData)]],
                    globalMessageBuffer)
       /\ globalMessageBuffer' = <<>>
       /\ globalBufferSize' = 0
       /\ \A id \in Ids \ {NewSubscriberId} : sub'[id] = sub[id]

\* C7: on the chunked-ndjson engine, frames broadcast with no subscriber are
\* held in the replay buffer in broadcast order; the next attach transfers all of
\* them in order to the new subscriber and empties the replay buffer; a frame in
\* the replay buffer is held by no subscriber, and a later attach gets none of
\* the frames already transferred.
C7_Replay ==
  /\ [](/\ Increasing(QueueSeqs(globalMessageBuffer))
        /\ globalBufferSize = SumBytes(globalMessageBuffer)
        /\ globalBufferSize <= MaxBufferSize
        /\ (globalMessageBuffer # <<>> => subscribers = {})
        /\ \A id \in Ids : FramesOf(id) \cap ReplaySeqs = {}
        /\ engine = "sse" => globalMessageBuffer = <<>>)
  /\ [][C7_ReplayHolds]_vars
  /\ [][C7_ReplayTransfers]_vars

\* Two frames were broadcast with nobody attached, then two subscribers
\* attached: the first was written both frames, the second only the
\* stream-opened line.
C7_Witness ==
  /\ steps = 4
  /\ engine = "ndjson"
  /\ subscribers = {1, 2}
  /\ Len(broadcastLog) = 2
  /\ DataSeqs(sub[1].response.out) = <<1, 2>>
  /\ sub[2].buffer = <<>>
  /\ sub[2].response.out = <<CommentChunk("opened", StreamOpenedLine)>>

\* ---------------------------------------------------------------------- C8
\* C8: a subscriber that attaches to the chunked-ndjson engine while the replay
\* buffer is non-empty is written the replayed frames and not the stream-opened
\* line.
C8_SentinelSuppressed ==
  [][ (AttachStep /\ engine = "ndjson" /\ globalMessageBuffer # <<>>)
      => \A i \in 1..Len(sub'[NewSubscriberId].response.out) :
           sub'[NewSubscriberId].response.out[i].kind # "opened" ]_vars

\* ---------------------------------------------------------------------- C9
\* Spawn i failed: spawn threw, or its child emitted 'error', or exited with a
\* non-zero code or a signal.
Failed(i) ==
  \/ pm.child[i].outcome = "threw"
  \/ pm.child[i].errorSeen
  \/ (pm.child[i].exited /\ ~pm.child[i].cleanExit)

ExitedCleanly(i) ==
  pm.child[i].exited /\ pm.child[i].cleanExit /\ ~pm.child[i].errorSeen

C9_AtMostOneTimer == pm.timersArmed <= 1

C9_CleanExitSchedulesNothing ==
  \A i \in Spawns : ExitedCleanly(i) => pm.scheduledFor[i] = 0

\* C9: every failure of a child gets exactly one restart scheduled for it
\* (restartCount incremented once, one timer armed), also when both 'error' and
\* 'exit' are delivered for it; never more than one restart timer is armed; a
\* clean exit schedules nothing.
C9_OneRestartPerFailure ==
  /\ \A i \in Spawns : Failed(i) => pm.scheduledFor[i] = 1
  /\ pm.restartCount = Len(pm.armedLog)
  /\ C9_AtMostOneTimer
  /\ C9_CleanExitSchedulesNothing

\* --------------------------------------------------------------------- C10
\* The k-th timer was armed when restartCount became k, with the delay
\* min(backoffMax, backoffBase * 2^(k-1)), which is at most backoffMax.
DelayFormula ==
  \A k \in 1..Len(pm.armedLog) :
    /\ pm.armedLog[k].k = k
    /\ pm.armedLog[k].delay = Min(backoffMax, backoffBase * Pow2(k - 1))
    /\ pm.armedLog[k].delay <= backoffMax

DelaysNonDecreasing ==
  \A j, k \in 1..Len(pm.armedLog) :
    j < k => pm.armedLog[j].delay <= pm.armedLog[k].delay

\* C10 as stated: the delay formula, successive delays non-decreasing, the
\* first delay equal to restartBackoffBase, none above restartBackoffMax.
C10_BackoffAsStated ==
  /\ DelayFormula
  /\ DelaysNonDecreasing
  /\ pm.armedLog # <<>> => pm.armedLog[1].delay = backoffBase

\* C10, amended: the delay formula holds and no delay exceeds
\* restartBackoffMax; the first delay is min(restartBackoffMax,
\* restartBackoffBase); successive delays are non-decreasing when
\* restartBackoffBase is not negative.
C10_Backoff ==
  /\ DelayFormula
  /\ backoffBase >= 0 => DelaysNonDecreasing
  /\ pm.armedLog # <<>> => pm.armedLog[1].delay = Min(backoffMax, backoffBase)

\* Three restarts were scheduled: the delays 1, 2, and then 3, where the
\* ceiling cuts 4 down.
C10_Witness ==
  /\ Len(pm.armedLog) = 3
  /\ pm.armedLog[1].delay = backoffBase
  /\ pm.armedLog[2].delay = 2 * backoffBase
  /\ pm.armedLog[3].delay = backoffMax
  /\ backoffMax < 4 * backoffBase

\* --------------------------------------------------------------------- C11
\* C11: once stop() has been called, no step other than a later call of
\* start() arms a restart timer or spawns a child, the exit of the child that
\* stop() signalled included.
C11_StopIsFinal ==
  [][ (pm.stopInvoked /\ ~Start)
      => (pm'.timersArmed = 0 /\ pm'.spawnCount = pm.spawnCount) ]_vars

\* --------------------------------------------------------------------- C12
\* This step is the 'exit' of child i with a non-zero code or a signal.
CrashStep(i) ==
  /\ ~pm.child[i].exited
  /\ pm'.child[i].exited
  /\ ~pm'.child[i].cleanExit

\* The supervisor can go no further within the bounds.
SupervisorAtBound == pm.spawnCount = MaxSpawns \/ pm.events = MaxEvents

\* A crash without stop() leaves a restart timer armed.
C12_CrashArmsTimer ==
  [][ \A i \in Spawns :
        (CrashStep(i) /\ ~pm.stopInvoked) => pm'.restartTimeout ]_vars

\* A crash without stop() has a restart counted for it (by its 'exit', or
\* by the 'error' that came before it).
C12_CrashCounted ==
  [][ \A i \in Spawns :
        (CrashStep(i) /\ ~pm.stopInvoked) => pm'.scheduledFor[i] >= 1 ]_vars

\* An armed restart timer leads to a new spawn, unless stop() intervenes.
C12_TimerLeadsToSpawn ==
  \A n \in 0..MaxSpawns :
    (pm.restartTimeout /\ pm.spawnCount = n)
      ~> (pm.spawnCount > n \/ pm.stopInvoked \/ SupervisorAtBound)

\* The restart timer's spawn, when it succeeds, makes isRunning() true.
C12_SpawnMakesRunning ==
  [][ (RestartTimerFires /\ pm'.child[pm'.spawnCount].outcome = "spawned")
      => IsRunning(pm') ]_vars

\* C12: when the child exits with a non-zero code or by a signal and stop() is
\* not called, restartCount is incremented for that crash and a restart timer is
\* armed; the timer leads to a new spawn, and a spawn that succeeds makes
\* isRunning() true.
C12_CrashRecovery ==
  /\ C12_CrashArmsTimer
  /\ C12_CrashCounted
  /\ C12_TimerLeadsToSpawn
  /\ C12_SpawnMakesRunning

\* --------------------------------------------------------------------- C13
\* C13: a call of start() while isRunning() is false and no restart is pending
\* spawns a child; when that spawn succeeds isRunning() is true.
C13_StartSpawnsWhenNotRunning ==
  [][ (Start /\ ~IsRunning(pm) /\ ~pm.restartTimeout)
      => /\ pm'.spawnCount = pm.spawnCount + 1
         /\ (pm'.child[pm'.spawnCount].outcome = "spawned" => IsRunning(pm')) ]_vars


\* --------------------------------------------------------------------- C14
\* The text of the bytes delivered so far, up to the last character whose
\* bytes have all arrived.
DeliveredBytes ==
  IF stdoutFed >= 1 /\ stdoutFed < Len(stdoutStream)
     /\ stdoutStream[stdoutFed] \in 194..223
     /\ stdoutStream[stdoutFed + 1] \in 128..191
  THEN stdoutFed - 1
  ELSE stdoutFed

DeliveredText == Utf8Decode(SubSeq(stdoutStream, 1, DeliveredBytes))

\* The newline-terminated lines of a text, trimmed, without the empty ones.
CompleteLines(text) ==
  LET lines == Split(text) IN TrimmedLines(SubSeq(lines, 1, Len(lines) - 1))

SingleByteStream == \A i \in 1..Len(stdoutStream) : stdoutStream[i] < 128

\* For streams of one-byte characters the splitter is independent of the
\* chunk boundaries.
C14_SingleByteSplitting ==
  SingleByteStream => parsedLines = CompleteLines(DeliveredText)

\* C14: however the child's stdout is cut into chunks, the lines handed on for
\* parsing are, in order, the trimmed non-empty newline-terminated lines of the
\* text delivered so far; a partial last line is held back until its newline
\* arrives.
C14_FrameSplitting == parsedLines = CompleteLines(DeliveredText)

\* --------------------------------------------------------------------- C15
\* A line passes envelope validation: it is JSON and a JSON-RPC 2.0 message.
IsValidLine(line) ==
  LET parsed == JsonParse(line) IN parsed.ok /\ ValidateJsonRpcMessage(parsed.val)

\* The canonical text of a valid line.
Reserialized(line) == JsonStringify(JsonParse(line).val)

\* The valid lines among those handed on so far, re-serialized, in order.
ExpectedBroadcasts ==
  LET valid == SelectSeq(parsedLines, IsValidLine)
  IN [i \in 1..Len(valid) |-> Reserialized(valid[i])]

\* C15: the broadcast calls made on the event-stream engine and those made on
\* the ndjson engine are the same sequence: the lines that pass envelope
\* validation, re-serialized, in order.  A line that does not parse or is not
\* a JSON-RPC message gives no broadcast and does not keep a later valid line,
\* of the same chunk or a later one, from being broadcast.
C15_FanOut ==
  /\ sseBroadcasts = ExpectedBroadcasts
  /\ ndBroadcasts = ExpectedBroadcasts

\* A valid line printed with extra whitespace, a line that is not JSON and a
\* valid line have all arrived: both engines were given the canonical text of
\* the first and of the third.
C15_Witness ==
  /\ parsedLines = <<SpacedNotificationText, TruncatedText, NotificationText>>
  /\ SpacedNotificationText # NotificationText
  /\ sseBroadcasts = <<NotificationText, NotificationText>>
  /\ ndBroadcasts = <<NotificationText, NotificationText>>

\* --------------------------------------------------------------------- C16
\* The Content-Type lacks application/json, the body is absent or neither an
\* object nor an array, or the object or an element of the array fails
\* envelope validation.
InvalidRequest(request) ==
  \/ ~Includes(request.contentType, ApplicationJson)
  \/ request.body.t \notin {"obj", "arr"}
  \/ request.body.t = "obj" /\ ~ValidateJsonRpcMessage(request.body)
  \/ request.body.t = "arr"
     /\ \E i \in 1..Len(request.body.v) : ~ValidateJsonRpcMessage(request.body.v[i])

\* The handler has answered with the given status and has done nothing else:
\* no write, no timeout, no spawn, no change of the supervisor.
OnlyAnswered(status) ==
  /\ responses' = Append(responses, [status |-> status, messageCount |-> 0])
  /\ stdin' = stdin
  /\ timeouts' = timeouts
  /\ pm' = Handled(pm)

\* C16: a POST /mcp that is invalid is answered with 400, writes nothing to
\* the child's stdin, sets no timeout and does not start the child; the valid
\* elements ahead of an invalid element of a batch are not written either.
C16_AllOrNothing ==
  [][ \A request \in Requests :
        (InvalidRequest(request) /\ PostMcpRequest(request)) => OnlyAnswered(400)
    ]_vars

\* A request was refused with 400 while a child was running with its stdin
\* open, and the child has received nothing.
C16_Witness ==
  /\ IsRunning(pm) /\ StdinOpen(pm)
  /\ responses # <<>> /\ responses[Len(responses)].status = 400
  /\ stdin = <<>>

\* --------------------------------------------------------------------- C17
\* The messages of a body: its elements, or the body itself.
MessagesOf(body) == IF body.t = "arr" THEN body.v ELSE <<body>>

\* What the child's stdin receives for a body: the compact JSON of every
\* message followed by one newline, in body order.
LinesOf(body, request, child) ==
  [i \in 1..Len(MessagesOf(body)) |->
     [child |-> child, text |-> JsonStringify(MessagesOf(body)[i]) \o <<10>>,
      request |-> request]]

\* The handler has written the messages of the body as one block of lines,
\* in body order, and has answered 202 with their number.
WrittenAndAccepted(request) ==
  /\ stdin' = stdin \o LinesOf(request.body, Len(responses) + 1, pm.process)
  /\ responses' = Append(responses,
                         [status |-> 202,
                          messageCount |-> Len(MessagesOf(request.body))])
  /\ timeouts' = timeouts
  /\ pm' = Handled(pm)

RequestLine ==
  <<123, 34, 106, 115, 111, 110, 114, 112, 99, 34, 58, 34, 50, 46, 48, 34, 44,
    34, 105, 100, 34, 58, 49, 44, 34, 109, 101, 116, 104, 111, 100, 34, 58, 34,
    97, 34, 125, 10>>
\* {"jsonrpc":"2.0","method":"x"} and a newline
NotificationLine ==
  <<123, 34, 106, 115, 111, 110, 114, 112, 99, 34, 58, 34, 50, 46, 48, 34, 44,
    34, 109, 101, 116, 104, 111, 100, 34, 58, 34, 120, 34, 125, 10>>

C18_Answers503 ==
  [][ \A request \in Requests :
        (~lazyStart /\ ~InvalidRequest(request) /\ ~IsRunning(pm)
         /\ PostMcpRequest(request))
        => OnlyAnswered(503)
    ]_vars

\* Without lazyStart no write is put off, and what a child's stdin has
\* received came from requests that were answered with 202.
C18_NothingLater ==
  ~lazyStart =>
    /\ timeouts = <<>>
    /\ \A i \in 1..Len(stdin) : responses[stdin[i].request].status = 202

\* Without lazyStart and without a running child, ProcessManager.write throws
\* its not-running error (and so starts nothing).
C18_WriteFails ==
  (~lazyStart /\ ~IsRunning(pm) /\ ~ErrorTickPending(pm)) => WriteFindsNoProcess(pm)

\* C18: when lazyStart is false and the supervisor has no running child, a
\* valid POST /mcp is answered with 503, nothing is written to the child's
\* stdin then or later, and ProcessManager.write fails with the not-running
\* error without starting the child.
C18_NotRunning == C18_Answers503 /\ [](C18_NothingLater /\ C18_WriteFails)

\* --------------------------------------------------------------------- C19
\* The object has a member of this name.
Carries(obj, key) == \E i \in 1..Len(obj.v) : obj.v[i].k = key

\* The object's jsonrpc member is the string "2.0".
VersionIs20(obj) ==
  \E i \in 1..Len(obj.v) :
    obj.v[i].k = Key.jsonrpc /\ obj.v[i].v.t = "str" /\ obj.v[i].v.v = Version20

\* The object's method member is a string.
HasStringMethod(obj) ==
  \E i \in 1..Len(obj.v) : obj.v[i].k = Key.method /\ obj.v[i].v.t = "str"

\* A response: an id and exactly one of result and error.
ResponseShape(obj) ==
  Carries(obj, Key.id) /\ (Carries(obj, Key.result) # Carries(obj, Key.error))

\* C19: an object with jsonrpc "2.0" and no string method is accepted by
\* validateJsonRpcMessage only if it has an id and exactly one of result and
\* error; with both, with neither or without id it is rejected.
C19_ResponseShape ==
  (/\ verdict.message # "none"
   /\ envelope.t = "obj"
   /\ VersionIs20(envelope)
   /\ ~HasStringMethod(envelope))
  => (verdict.message = "returned" <=> ResponseShape(envelope))

\* The same, leaving out the objects that carry both result and error.
C19_ShapeUnlessBoth ==
  (/\ verdict.message # "none"
   /\ envelope.t = "obj"
   /\ VersionIs20(envelope)
   /\ ~HasStringMethod(envelope)
   /\ ~(Carries(envelope, Key.result) /\ Carries(envelope, Key.error)))
  => (verdict.message = "returned" <=> ResponseShape(envelope))

\* --------------------------------------------------------------------- C20
\* The values the claim says are rejected: what is not an object, an object
\* whose jsonrpc is not "2.0", an object with no string method, no result and
\* no error.
MustBeRejected(value) ==
  IF value.t # "obj" THEN TRUE
  ELSE \/ ~VersionIs20(value)
       \/ /\ ~HasStringMethod(value)
          /\ ~Carries(value, Key.result)
          /\ ~Carries(value, Key.error)

\* Requests, notifications and responses with jsonrpc "2.0".
MustBeAccepted(value) ==
  IF value.t # "obj" THEN FALSE
  ELSE VersionIs20(value) /\ (HasStringMethod(value) \/ ResponseShape(value))

\* C20: validateJsonRpcMessage throws for what is not a non-null, non-array
\* object, for an object whose jsonrpc is not exactly "2.0" and for an object
\* without string method, result and error, and returns for requests,
\* notifications and responses; parseJsonRpcBatch throws for what is not an
\* array and for an array with an element of the rejected kinds, and returns
\* for an array of requests, notifications and responses.
C20_Rejections ==
  /\ verdict.message # "none" =>
       /\ MustBeRejected(envelope) => verdict.message = "threw"
       /\ MustBeAccepted(envelope) => verdict.message = "returned"
  /\ verdict.batch # "none" =>
       /\ envelope.t # "arr" => verdict.batch = "threw"
       /\ (envelope.t = "arr"
           /\ \E i \in 1..Len(envelope.v) : MustBeRejected(envelope.v[i]))
          => verdict.batch = "threw"
       /\ (envelope.t = "arr"
           /\ \A i \in 1..Len(envelope.v) : MustBeAccepted(envelope.v[i]))
          => verdict.batch = "returned"

\* A batch whose first element is a request and whose second has jsonrpc
\* "1.0" has been given to both validators, and both threw.
C20_Witness ==
  /\ envelope = Json("arr", <<RequestMessage, WrongVersionMessage>>)
  /\ verdict = [message |-> "threw", batch |-> "threw"]

\* --------------------------------------------------------------------- C21
\* POST /mcp with application/json and the body []
EmptyBatchRequest == [contentType |-> ApplicationJson, body |-> Json("arr", <<>>)]

\* C21 (nothing written): a POST /mcp whose body is [] puts nothing on the
\* child's stdin, and the write it may put off writes nothing either.
C21_NothingWritten ==
  [][ /\ PostMcpRequest(EmptyBatchRequest) => stdin' = stdin
      /\ (timeouts # <<>> /\ Head(timeouts).messages = <<>>
          /\ Head(timeouts).kind = "writeMessages" /\ TimeoutFires)
         => stdin' = stdin
    ]_vars

\* C21: a POST /mcp whose body is the empty array is answered with 400, and
\* nothing else happens: nothing is written to the child's stdin, no timeout
\* is set and the child is not started.
C21_EmptyBatchRejected ==
  [][ PostMcpRequest(EmptyBatchRequest) => OnlyAnswered(400) ]_vars

\* --------------------------------------------------------------------- C24
\* The status a health check reports
Reports(status) == healthLog'[Len(healthLog')].status = status

\* C24 (status code): GET /healthz answers 503 when the status it reports is
\* unhealthy and 200 when it is healthy or degraded.
C24_StatusCode ==
  \A i \in 1..Len(healthLog) :
    /\ healthLog[i].status \in {"healthy", "degraded", "unhealthy"}
    /\ healthLog[i].statusCode = IF healthLog[i].status = "unhealthy" THEN 503 ELSE 200

\* C24 as stated: GET /healthz reports unhealthy iff the child is not running
\* and restartCount > 0, degraded iff restartCount > 5, healthy otherwise.
C24_HealthAsStated ==
  [][ GetHealthz =>
        /\ Reports("unhealthy") <=> (~IsRunning(pm) /\ pm.restartCount > 0)
        /\ Reports("degraded") <=> pm.restartCount > 5
        /\ Reports("healthy") <=> ~(Reports("unhealthy") \/ Reports("degraded"))
    ]_vars

\* C24: GET /healthz reports unhealthy iff the child is not running and
\* restartCount > 0, degraded iff restartCount > 5 and the child is running,
\* healthy otherwise; the response says what isRunning() and restartCount
\* were, and its status code is 503 iff the status is unhealthy, else 200.
C24_Health ==
  [][ GetHealthz =>
        LET h == healthLog'[Len(healthLog')]
        IN /\ h.running = IsRunning(pm) /\ h.restartCount = pm.restartCount
           /\ Reports("unhealthy") <=> (~IsRunning(pm) /\ pm.restartCount > 0)
           /\ Reports("degraded") <=> (IsRunning(pm) /\ pm.restartCount > 5)
           /\ Reports("healthy") <=> ~(Reports("unhealthy") \/ Reports("degraded"))
           /\ h.statusCode = IF Reports("unhealthy") THEN 503 ELSE 200
    ]_vars

\* A health check has reported degraded with 200 for a running child at the
\* first restartCount above 5.
C24_Witness ==
  \E i \in 1..Len(healthLog) :
    /\ healthLog[i].status = "degraded" /\ healthLog[i].restartCount = 6
    /\ healthLog[i].running /\ healthLog[i].statusCode = 200

\* --------------------------------------------------------------------- C30
\* C30 (no child): stop() on a supervisor without a ChildProcess returns a
\* promise that is resolved.
C30_ImmediateWithoutChild ==
  [][ (Stop /\ pm.process = 0) => pm'.stops[Len(pm'.stops)].resolved ]_vars

\* C30 (exit): the 'exit' of a child resolves every stop() that waits for it.
C30_ExitResolves ==
  [][ \A i \in Spawns :
        (~pm.child[i].exited /\ pm'.child[i].exited)
        => \A k \in 1..Len(pm'.stops) :
             pm'.stops[k].child = i => pm'.stops[k].resolved ]_vars

\* C30 (every call): the promise of every call of stop() is resolved in the
\* end, whatever the child does.
C30_EveryStopResolves ==
  \A k \in 1..MaxEvents :
    (Len(pm.stops) >= k)
      ~> (Len(pm.stops) >= k /\ (pm.stops[k].resolved \/ pm.events = MaxEvents))

\* C30: every call of the supervisor's stop() resolves: at once when there is
\* no child, when the child exits, or when the 5-second timer fires, also for
\* a child that had exited before the call.
C30_StopTerminates ==
  /\ C30_ImmediateWithoutChild
  /\ C30_ExitResolves
  /\ C30_EveryStopResolves

\* A stop() called after its child had exited (the child was never signalled)
\* has been resolved, which only its timer can have done.
C30_Witness ==
  \E k \in 1..Len(pm.stops) :
    /\ pm.stops[k].child # 0
    /\ pm.child[pm.stops[k].child].exited
    /\ ~pm.child[pm.stops[k].child].signalled
    /\ pm.stops[k].resolved

\* ---------------------------------------------------------------- C23
\* The graceful shutdown that a trigger begins has run to its end: both
\* closeAll, the supervisor's stop and the listener's close, in this order.
ShutdownRanThrough ==
  /\ Len(shutdownLog) = 9
  /\ SubSeq(shutdownLog, 2, 9) =
       <<"sseCloseAll", "sseClosed", "ndCloseAll", "ndClosed", "pmStop",
         "pmStopped", "serverClose", "serverClosed">>

\* C23: once the process has exited after a shutdown that an uncaught
\* exception or an unhandled rejection began, its exit code is non-zero, and
\* after one that SIGTERM or SIGINT began it is 0.
C23_ErrorsExitNonZero ==
  (exitCode # -1 /\ ShutdownRanThrough) =>
    IF shutdownLog[1] \in {"uncaughtException", "unhandledRejection"}
    THEN exitCode > 0
    ELSE exitCode = 0

\* ---------------------------------------------------------------- C22
\* The steps of the shutdown logged so far, the triggers left out.
ShutdownSteps ==
  LET IsStep(e) == e \notin ShutdownTriggers
  IN SelectSeq(shutdownLog, IsStep)

\* C22: whatever the number of shutdown triggers, the steps of the shutdown
\* each run at most once and in order (the steps taken are a prefix of: the
\* closeAll of the event-stream engine begins, completes, that of the ndjson
\* engine begins, completes, the supervisor's stop begins, resolves, the
\* listener's close begins, completes); the supervisor's stop is called only
\* after both closeAll have completed and at most once, and the listener is
\* closed only after that stop has resolved.
C22_ShutdownSequence ==
  /\ ShutdownSteps =
       SubSeq(<<"sseCloseAll", "sseClosed", "ndCloseAll", "ndClosed", "pmStop",
                "pmStopped", "serverClose", "serverClosed">>, 1, Len(ShutdownSteps))
  /\ Len(pm.stops) <= 1
  /\ pm.stopInvoked =>
       /\ Len(ShutdownSteps) >= 5
       /\ endPending = {}
       /\ \A id \in Ids :
            Len(sub[id].response.out) > 0
            /\ Last(sub[id].response.out).kind = "closing"
              => sub[id].response.writableEnded
  /\ listener # "listening" => (pm.stops # <<>> /\ pm.stops[1].resolved)

\* A second trigger arrived after the supervisor's stop had begun on a live
\* child, the streams of the subscribers having been closed.
C22_Witness ==
  /\ \E i \in 7..Len(shutdownLog) : shutdownLog[i] \in ShutdownTriggers
  /\ pm.stops # <<>> /\ pm.stops[1].child # 0
  /\ \E id \in Ids : sub[id].response.writableEnded
  /\ exitCode = 0

\* ---------------------------------------------------------------- C25
\* Without lazyStart spawn() has been called before the first request; with
\* it, not before the first request or stream open.
C25_AtConstruction ==
  /\ ~lazyStart => pm.spawnCount >= 1
  /\ (lazyStart /\ steps = 0 /\ responses = <<>>) => pm.spawnCount = 0

\* GET /healthz and GET / leave the supervisor as it is, and the step that
\* calls spawn() for the first time is a POST /mcp or a stream open.
C25_FirstSpawn ==
  [][/\ (GetHealthz \/ GetRoot) => pm' = pm
     /\ (pm.spawnCount = 0 /\ pm'.spawnCount > 0) =>
          /\ lazyStart
          /\ \/ OpenStream
             \/ PostMcpRequest([contentType |-> ApplicationJson,
                                body |-> NotificationMessage])]_vars

\* C25: with lazyStart no child is spawned at construction, by GET /healthz
\* or by GET /, and the first spawn is made by a POST or a stream open;
\* without lazyStart spawn() is called during construction.
C25_LazyStart == []C25_AtConstruction /\ C25_FirstSpawn

\* Under lazyStart a health check and a GET / were answered with no child
\* spawned, and then a stream open made the first spawn.
C25_Witness ==
  /\ lazyStart
  /\ healthLog # <<>> /\ ~healthLog[1].running /\ healthLog[1].pid = 0
  /\ Len(httpStatus) = 2 /\ subscribers # {}
  /\ pm.spawnCount = 1 /\ IsRunning(pm)
  /\ responses = <<>>

\* ---------------------------------------------------------------- C26
\* C26: with a ${input:ID} token in the tool's args that nothing resolves, the
\* process has exited with a non-zero code, or it is still starting up: it has
\* answered no request and opened no stream, and the supervisor has scheduled
\* no restart.
C26_UnresolvableIsFatal ==
  ~ResolveInputVariables(tool.args, <<>>, tool.env).ok =>
    \/ exitCode > 0
    \/ /\ healthLog = <<>> /\ responses = <<>> /\ httpStatus = <<>>
       /\ pm.restartCount = 0 /\ pm.timersArmed = 0

\* ---------------------------------------------------------------- C28
\* C28: whenever the event-stream engine is between two events (no
\* continuation of stop() due), its keepalive timer is armed if and only if
\* it has at least one subscriber.
C28_KeepaliveTracksOccupancy ==
  (engine = "sse" /\ BridgeReady(0)) => (keepaliveInterval <=> subscribers # {})

\* ---------------------------------------------------------------- C27
\* The broadcast numbers of the frames a subscriber holds: queued or written.
HeldSeqs(s) ==
  {QueueSeqs(s.buffer)[i] : i \in 1..Len(s.buffer)}
    \cup {DataSeqs(s.response.out)[i] : i \in 1..Len(DataSeqs(s.response.out))}

\* A subscriber that has not attached yet holds nothing.
C27_NothingBeforeAttach ==
  engine = "sse" =>
    \A id \in Ids : id > subscriberIdCounter => sub[id] = NewSubscriber

\* A broadcast without subscriber changes no subscriber; a subscriber attaches
\* with an empty queue and no data frame on its sink; and the frames a
\* subscriber comes to hold in a step are those of the broadcast of that very
\* step, made while it is attached.
C27_OnlyLaterBroadcasts ==
  [][engine = "sse" =>
       /\ (BroadcastStep /\ subscribers = {}) => (sub' = sub /\ subscribers' = {})
       /\ AttachStep => HeldSeqs(sub'[subscriberIdCounter']) = {}
       /\ \A id \in Ids :
            HeldSeqs(sub'[id]) \ HeldSeqs(sub[id]) \subseteq
              (IF BroadcastStep /\ id \in subscribers
               THEN {Len(broadcastLog')} ELSE {})]_vars

\* C27: on the event-stream engine a frame broadcast while there is no
\* subscriber is discarded, and the data frames written to a subscriber's sink
\* are frames broadcast after it attached.
C27_NoReplay == []C27_NothingBeforeAttach /\ C27_OnlyLaterBroadcasts

\* The first frame was broadcast with no subscriber; the one subscriber that
\* attached afterwards got the second frame and nothing else.
C27_Witness ==
  /\ engine = "sse"
  /\ subscribers = {1} /\ subscriberIdCounter = 1 /\ httpStatus = <<200>>
  /\ Len(broadcastLog) = 2
  /\ sub[1].buffer = <<>> /\ DataSeqs(sub[1].response.out) = <<2>>

\* ---------------------------------------------------------------- C29
\* The subscribers that were attached and are no longer in the map.
Removed == (1..subscriberIdCounter) \ subscribers

\* A removed subscriber has an empty queue, bufferSize 0 and an ended response.
C29_QueueEmptied ==
  \A id \in Removed :
    /\ sub[id].buffer = <<>> /\ sub[id].bufferSize = 0
    /\ sub[id].response.writableEnded

\* The step of a client disconnect takes the subscriber out of the map and
\* writes nothing to its sink, and no later step writes to the sink of a
\* removed subscriber.
C29_NothingWrittenAfter ==
  [][\A id \in Ids :
       /\ (id \in subscribers /\ (SseDisconnect(id) \/ NdDisconnect(id))) =>
            (id \in Removed' /\ sub'[id].response.out = sub[id].response.out)
       /\ id \in Removed =>
            (id \in Removed' /\ sub'[id].response.out = sub[id].response.out)]_vars

\* C29: after a client disconnect the subscriber is out of its engine's map,
\* its queue is empty with bufferSize 0, and nothing more is written to its
\* sink, whatever fires later.
C29_DisconnectCancels == []C29_QueueEmptied /\ C29_NothingWrittenAfter

\* Four steps on the event-stream engine: a subscriber attached, a broadcast
\* whose write returned false left a frame queued and a 'drain' listener
\* registered, the client disconnected, and the 'drain' fired afterwards (had
\* it fired before, the sink would hold a third chunk).
C29_Witness ==
  /\ engine = "sse" /\ steps = 4
  /\ httpStatus = <<200>> /\ Len(broadcastLog) = 1
  /\ Removed = {1}
  /\ Len(sub[1].response.out) = 2
  /\ ~sub[1].response.needDrain /\ sub[1].response.drainListeners = 0

\* ---------------------------------------------------------------- C31
\* The children that have a pid and whose 'exit' has not been delivered.
LiveChildren == {i \in Spawns : pm.child[i].outcome = "spawned" /\ ~pm.child[i].exited}

\* C31: in every state of the supervisor, state.started implies that
\* state.pid is present, and state.pid is absent when no child is alive.
C31_StartedImpliesPid ==
  /\ pm.started => pm.pid # 0
  /\ LiveChildren = {} => pm.pid = 0

\* ---------------------------------------------------------------- C33
\* C33: in every state of the supervisor at most one child that it spawned
\* is alive (and has its stdout wired to the router).
C33_SingleChild == Cardinality(LiveChildren) <= 1

\* ---------------------------------------------------------------- C32
\* The replay buffer's size field is the sum of the byte lengths of its
\* frames and within maxBufferSize, and the buffer holds frames only while
\* the subscriber map is empty.
C32_ReplayAccounting ==
  engine = "ndjson" =>
    /\ globalBufferSize = SumBytes(globalMessageBuffer)
    /\ globalBufferSize <= MaxBufferSize
    /\ globalMessageBuffer # <<>> => subscribers = {}

\* A broadcast that would take the replay buffer past maxBufferSize leaves
\* the buffer and its size as they are, and one that fits is appended.
C32_OverflowDropped ==
  [][(BroadcastStep /\ engine = "ndjson" /\ subscribers = {}) =>
       IF globalBufferSize + ByteLength(Last(broadcastLog')) > MaxBufferSize
       THEN UNCHANGED <<globalMessageBuffer, globalBufferSize>>
       ELSE Len(globalMessageBuffer') = Len(globalMessageBuffer) + 1]_vars

\* C32: in every state of the chunked-ndjson engine globalBufferSize is the
\* sum of the byte lengths of the frames in the replay buffer and at most
\* maxBufferSize, the replay buffer is non-empty only while no subscriber is
\* attached, and a broadcast that would push it past maxBufferSize is dropped.
C32_ReplayBuffer == []C32_ReplayAccounting /\ C32_OverflowDropped

\* Three broadcasts with nobody attached: "é" fills the replay buffer to
\* maxBufferSize and the two that follow are dropped.
C32_Witness ==
  /\ engine = "ndjson" /\ subscriberIdCounter = 0
  /\ Len(broadcastLog) = 3
  /\ Len(globalMessageBuffer) = 1 /\ globalMessageBuffer[1].seq = 1
  /\ globalBufferSize = MaxBufferSize

\* ---------------------------------------------------------------- C34
\* C34: every frame appended to a subscriber's queue is written to that
\* subscriber's sink at most once: no broadcast number occurs twice among
\* the data frames of a sink, whatever the writes returned and whenever
\* 'drain' fired.
C34_NoDuplicateDelivery ==
  \A id \in 1..subscriberIdCounter :
    \A i, j \in 1..Len(DataSeqs(sub[id].response.out)) :
      i # j => DataSeqs(sub[id].response.out)[i] # DataSeqs(sub[id].response.out)[j]

\* ---------------------------------------------------------------- C35
\* A broadcast step in which the write to subscriber id throws: id is
\* evicted, every subscriber whose own write does not throw and whose queue
\* has room stays attached and keeps the frames it has not been written, the
\* new one included, and no shutdown begins.
C35_FailureInBroadcast ==
  \A id \in subscribers :
    \A text \in Frames, ks \in [subscribers -> WriteResults \cup {-1}] :
      (ks[id] = -1 /\ Step /\ (SseBroadcast(text, ks) \/ NdBroadcast(text, ks))) =>
        /\ id \notin subscribers'
        /\ shutdownInProgress' = shutdownInProgress
        /\ \A other \in subscribers \ {id} :
             (ks[other] >= 0 /\ sub[other].bufferSize + ByteLength(text) <= MaxBufferSize
                /\ ~sub[other].response.writableEnded) =>
               /\ other \in subscribers'
               /\ \E n \in 0..Len(sub[other].buffer) + 1 :
                    QueueSeqs(sub'[other].buffer) =
                      SubSeq(Append(QueueSeqs(sub[other].buffer), Len(broadcastLog')),
                             n + 1, Len(sub[other].buffer) + 1)

\* A 'drain' step in which the write to subscriber id throws: id is evicted,
\* every other subscriber is left as it was, and no shutdown begins.
C35_FailureInDrain ==
  \A id \in subscribers :
    DrainWriteThrows(id) =>
      /\ subscribers' = subscribers \ {id}
      /\ \A other \in subscribers \ {id} : sub'[other] = sub[other]
      /\ shutdownInProgress' = shutdownInProgress

\* C35: a write that throws during a flush, begun by broadcast or resumed by
\* 'drain', evicts that subscriber only: the others stay attached with their
\* queues intact and the bridge does not enter shutdown.
C35_WriteFailureEvictsOne == [][C35_FailureInBroadcast /\ C35_FailureInDrain]_vars

\* ---------------------------------------------------------------- C36
\* C36: after a restart the complete lines that the new child has written so
\* far are, each as a frame of its own and trimmed, the last lines handed on
\* for parsing, whatever the dead child left unterminated.
C36_FramingSurvivesRestart ==
  pm.spawnCount > 0 =>
    LET own == CompleteLines(DeliveredText)
        n == Len(parsedLines)
    IN Len(own) <= n /\ SubSeq(parsedLines, n - Len(own) + 1, n) = own

\* ---------------------------------------------------------------- C37
\* C37: the frames written to the stdin of a child are in the order of the
\* POST requests that carried them: no frame of a request is written after a
\* frame of a request that was received later.
C37_PostOrder ==
  \A i, j \in 1..Len(stdin) : i < j => stdin[i].request <= stdin[j].request

\* ---------------------------------------------------------------- C39
\* C39: when the bridge process has exited after a shutdown began, the
\* supervisor's stop() had been called and the promise it returned resolved.
C39_ExitAfterStop ==
  (exitCode # -1 /\ shutdownInProgress) =>
    (pm.stops # <<>> /\ pm.stops[1].resolved)

\* ---------------------------------------------------------------- C40
\* C40: once stop() has begun, no request registers a subscriber in an
\* engine and none makes the supervisor spawn a child.
C40_NoLateAttach ==
  [][(shutdownInProgress /\ (steps' # steps \/ responses' # responses)) =>
       (subscribers' \subseteq subscribers /\ pm'.spawnCount = pm.spawnCount)]_vars

\* ---------------------------------------------------------------- C38
\* C38, first half: a POST /mcp/streamable request answered 400 has written
\* nothing to the stdin of a child and has no write waiting in a timeout.
C38_RejectedForwardsNothing ==
  \A r \in 1..Len(httpStatus) :
    httpStatus[r] = 400 =>
      /\ \A i \in 1..Len(stdin) : stdin[i].request # r
      /\ \A i \in 1..Len(timeouts) : timeouts[i].request # r

\* C38: every POST /mcp/streamable request answered with an error status (400,
\* or 503 for a stream upgrade at the subscriber limit) has written none of
\* its frames to the stdin of a child and has scheduled none for later.
C38_ErrorMeansNothingForwarded ==
  \A r \in 1..Len(httpStatus) :
    httpStatus[r] \in {400, 503} =>
      /\ \A i \in 1..Len(stdin) : stdin[i].request # r
      /\ \A i \in 1..Len(timeouts) : timeouts[i].request # r

====
